---- MODULE Spec2Model ----
(***************************************************************************)
(* Model of analytics_dashboard.py: AnalyticsDashboard.generate_all_reports *)
(* runs thirteen report steps in a fixed order.  Each step sends one SQL    *)
(* query to the database (a get_ method), receives a DataFrame, and hands   *)
(* it to the plot_ methods.  The ranking and tiering logic lives in the     *)
(* query text:                                                              *)
(* window functions (ROW_NUMBER, RANK, DENSE_RANK, PERCENT_RANK, CUME_DIST, *)
(* NTILE, LEAD, FIRST_VALUE, LAST_VALUE) and CASE expressions.  They are    *)
(* modelled here with the semantics PostgreSQL gives them.                  *)
(*                                                                         *)
(* The database is outside the program: every get_ action draws the rows  *)
(* its query reads (db) from a bounded set.  Rows that compare equal under *)
(* an ORDER BY are peers; SQL leaves their relative order open, so a sort  *)
(* draws how it treats peers (TiePolicies).                                *)
(*                                                                         *)
(* Two specifications.  Spec follows the data of each report: the rows the *)
(* query reads, the windowed rows and the DataFrame, through the query and *)
(* the plot methods.  RunSpec follows one run of generate_all_reports as a *)
(* whole: which queries are sent, which files are written, what is         *)
(* printed, and when the connection is closed; there a DataFrame is only   *)
(* empty or not, which is all generate_all_reports looks at.               *)
(***************************************************************************)
EXTENDS Integers, Sequences, FiniteSets, TLC

VARIABLES pc,     \* number of the report generate_all_reports is working on
          stage,  \* "query": about to call get_...; "plot": the DataFrame is
                  \* back; "pie": between the two plots of report 3; "done":
                  \* the plot methods of the report have returned
          ok,     \* FALSE when fetch_data returned None
          df,     \* the DataFrame returned by get_... (sequence of rows)
          db,     \* the rows the query of this report read from the database
          cte,    \* the rows of the query's windowed sub-select, in window order
          segment_stats,  \* the groupby result of plot_customer_value_segments
          milestone_summary,  \* the counts plot_driver_milestones computes
          last_report,  \* the number of reports of the class that is run
          conn,    \* self.conn: "open" or "closed"
          files,   \* the numbers of the HTML files written to docs/
          printed, \* the kinds of message printed so far
          log      \* the queries sent and the closes of the connection, in order

(* the state of the run as a whole *)
runVars == <<last_report, conn, files, printed, log>>

vars == <<pc, stage, ok, df, db, cte, segment_stats, milestone_summary, last_report, conn, files, printed, log>>

-----------------------------------------------------------------------------
(* Bounds of the model *)

MaxKey == 3         \* order-key values are 10, 20, .., 10 * MaxKey, and NULL
MaxDrivers == 3     \* rows of a per-driver aggregate
MaxCustomers == 7   \* rows of the per-customer aggregate (NTILE input)
MaxRides == 3       \* rows of fact_rides read by a partitioned window query
MaxBuckets == 5     \* bucket counts tried on the NTILE computation

(* SQL NULL.  All other values of the model are positive integers. *)
NULL == -1

(* Number of reports in generate_all_reports *)
LastReport == 13

KeyValues == {10 * k : k \in 1..MaxKey}
Keys == KeyValues \cup {NULL}

(* How one sort treats rows that are peers under its ORDER BY: it may keep *)
(* them in the order the scan delivered them or deliver them reversed.     *)
TiePolicies == {"scan", "reverse"}

-----------------------------------------------------------------------------
(* ORDER BY *)

(* PostgreSQL's default null placement: ASC puts NULL last, DESC puts NULL *)
(* first (NULL sorts as larger than every value).                          *)
AscBefore(a, b) == a # NULL /\ (b = NULL \/ a < b)

(* mutant: the DESC of the ORDER BY is lost *)
DescBefore_ascending(a, b) == a # NULL /\ (b = NULL \/ a < b)

DescBefore(a, b) == b # NULL /\ (a = NULL \/ a > b)

(* rows ordered by the strict order Before; peers placed as `tie` says.   *)
(* at[i] is the place of row i in the result.  (SubSeq(f, 1, n) is the     *)
(* sequence f written out.)                                                *)
OrderBy(rows, Before, tie) ==
    LET n == Len(rows)
        peer(i, j) == ~Before[rows[i], rows[j]] /\ ~Before[rows[j], rows[i]]
        pos(i) == 1 + Cardinality({j \in 1..n : Before[rows[j], rows[i]]})
                    + Cardinality({j \in 1..n : peer(i, j) /\
                                     IF tie = "scan" THEN j < i ELSE j > i})
        at == SubSeq([i \in 1..n |-> pos(i)], 1, n)
    IN  SubSeq([p \in 1..n |-> rows[CHOOSE i \in 1..n : at[i] = p]], 1, n)

(* mutant: the LIMIT is lost *)
Limit_none(rows, n) == rows

(* LIMIT n *)
Limit(rows, n) == IF Len(rows) <= n THEN rows ELSE SubSeq(rows, 1, n)

-----------------------------------------------------------------------------
(* Window functions over one ordered partition.  k is the sequence of the  *)
(* order-key values of the partition's rows, in window order; i is the     *)
(* position of the current row.                                            *)

(* mutant: peers get the same number *)
ROW_NUMBER_shared_by_peers(k, i) == 1 + Cardinality({j \in 1..(i - 1) : k[j] # k[i]})

ROW_NUMBER(k, i) == i

(* mutant: peers do not share a rank *)
RANK_row_number(k, i) == i

(* the rank of a row is the row number of the first row of its peer group *)
RECURSIVE RANK(_, _)
RANK(k, i) ==
    IF i = 1 THEN 1
    ELSE IF k[i] = k[i - 1] THEN RANK(k, i - 1) ELSE i

(* mutant: at a new peer group the rank jumps to the row number *)
DENSE_RANK_with_gaps(k, i) == RANK(k, i)

(* the dense rank advances by one at each new peer group *)
RECURSIVE DENSE_RANK(_, _)
DENSE_RANK(k, i) ==
    IF i = 1 THEN 1
    ELSE IF k[i] = k[i - 1] THEN DENSE_RANK(k, i - 1)
         ELSE DENSE_RANK(k, i - 1) + 1

(* mutant: divides by the partition size instead of the size minus one *)
PERCENT_RANK_by_size(k, i) == [num |-> RANK(k, i) - 1, den |-> Len(k)]

(* mutant: the only row of a partition counts as its last row (1.0) *)
PERCENT_RANK_single_row_last(k, i) ==
    IF Len(k) = 1 THEN [num |-> 1, den |-> 1]
    ELSE [num |-> RANK(k, i) - 1, den |-> Len(k) - 1]

(* PERCENT_RANK and CUME_DIST are fractions; a fraction is kept exact as   *)
(* [num, den] until the query rounds it.                                   *)
PERCENT_RANK(k, i) ==
    IF Len(k) = 1 THEN [num |-> 0, den |-> 1]
    ELSE [num |-> RANK(k, i) - 1, den |-> Len(k) - 1]

(* mutant: counts the rows up to the current row, not up to its last peer *)
CUME_DIST_up_to_row(k, i) == [num |-> i, den |-> Len(k)]

(* the number of rows preceding or peer with the current row, over the    *)
(* number of rows of the partition                                        *)
CUME_DIST(k, i) ==
    LET lastPeer == CHOOSE j \in i..Len(k) :
                        /\ \A m \in i..j : k[m] = k[i]
                        /\ (j = Len(k) \/ k[j + 1] # k[i])
    IN  [num |-> lastPeer, den |-> Len(k)]

(* mutant: every bucket is filled to the rounded-up size n / nb *)
NTILE_ceiling(nb, n, i) == ((i - 1) \div ((n + nb - 1) \div nb)) + 1

(* mutant: the last n % nb buckets, not the first, hold the extra row *)
NTILE_remainder_last(nb, n, i) ==
    LET q == n \div nb
        r == n % nb
    IN  IF i <= (nb - r) * q
        THEN ((i - 1) \div q) + 1
        ELSE (nb - r) + ((i - (nb - r) * q - 1) \div (q + 1)) + 1

(* NTILE(nb) over a partition of n rows: the first n % nb buckets hold    *)
(* n \div nb + 1 rows, the others n \div nb rows; rows fill the buckets in *)
(* window order.                                                          *)
NTILE(nb, n, i) ==
    LET q == n \div nb
        r == n % nb
    IN  IF i <= r * (q + 1)
        THEN ((i - 1) \div (q + 1)) + 1
        ELSE r + ((i - r * (q + 1) - 1) \div q) + 1

(* mutant: the last row of a partition gets its own value *)
LEAD_clamped(v, i) == IF i < Len(v) THEN v[i + 1] ELSE v[i]

(* LEAD(v) with offset 1: the value of the next row of the partition *)
LEAD(v, i) == IF i < Len(v) THEN v[i + 1] ELSE NULL

(* FIRST_VALUE / LAST_VALUE under ROWS BETWEEN UNBOUNDED PRECEDING AND    *)
(* UNBOUNDED FOLLOWING: the frame of every row is the whole partition.    *)
FIRST_VALUE(v, i) == v[1]

(* mutant: the frame ends at the current row (the default frame) *)
LAST_VALUE_running(v, i) == v[i]

LAST_VALUE(v, i) == v[Len(v)]

(* ROUND(x::numeric, 3) of a non-negative fraction, in thousandths:       *)
(* numeric rounding is to nearest, halves away from zero.                 *)
Round3(f) == (2 * 1000 * f.num + f.den) \div (2 * f.den)

-----------------------------------------------------------------------------
(* mutant: the last arm whose condition is true gives the result *)
CASE_WHEN_last_match(whens, else) ==
    LET hit == {a \in 1..Len(whens) : whens[a].when}
    IN  IF hit = {} THEN else
        ELSE whens[CHOOSE a \in hit : \A b \in hit : a >= b].then

(* CASE WHEN c1 THEN l1 WHEN c2 THEN l2 ... ELSE d END.  whens is the      *)
(* sequence of [when, then] arms with `when` already evaluated for the    *)
(* row; the first arm whose condition is true gives the result.           *)
CASE_WHEN(whens, else) ==
    LET hit == {a \in 1..Len(whens) : whens[a].when}
    IN  IF hit = {} THEN else
        ELSE whens[CHOOSE a \in hit : \A b \in hit : a <= b].then

(* a comparison with NULL is not true *)
SqlLe(a, b) == a # NULL /\ b # NULL /\ a <= b

SqlEq(a, b) == a # NULL /\ b # NULL /\ a = b

-----------------------------------------------------------------------------
(* What the queries read.  A per-driver or per-customer aggregate has one  *)
(* row per name (GROUP BY name); the name of the row at scan position i is *)
(* i.                                                                      *)

(* the set of the rows of a table *)
Range(a) == {a[i] : i \in 1..Len(a)}

(* the values of column Col of rows, in order *)
Column(rows, col) == SubSeq([i \in 1..Len(rows) |-> rows[i][col]], 1, Len(rows))

-----------------------------------------------------------------------------
(* QUERY 4: ROW_NUMBER() OVER (ORDER BY overall_avg_wait_time_minutes ASC) *)
(* rows: the rows of the CTE driver_efficiency.                            *)
get_driver_leaderboard(rows, tie, tie2) ==
    LET s == OrderBy(rows, [a, b \in Range(rows) |-> AscBefore(a.overall_avg_wait_time_minutes,
                                                   b.overall_avg_wait_time_minutes)], tie)
        k == Column(s, "overall_avg_wait_time_minutes")
        w == [i \in 1..Len(s) |->
                [driver_name |-> s[i].driver_name,
                 overall_avg_wait_time_minutes |-> s[i].overall_avg_wait_time_minutes,
                 efficiency_rank |-> ROW_NUMBER(k, i)]]
    IN  [cte |-> w,
         df |-> Limit(OrderBy(w, [a, b \in Range(w) |-> AscBefore(a.efficiency_rank,
                                                         b.efficiency_rank)], tie2), 15)]

(* mutant: the thresholds are exclusive *)
performance_tier_exclusive(revenue_rank) ==
    CASE_WHEN(<<[when |-> revenue_rank # NULL /\ revenue_rank < 10,
                 then |-> "Top Tier (Rank <=10)"],
                [when |-> revenue_rank # NULL /\ revenue_rank < 30,
                 then |-> "Mid Tier (Rank 11-30)"]>>,
              "Growth Tier (Rank >30)")

(* QUERY 5: the CASE of performance_tier *)
performance_tier(revenue_rank) ==
    CASE_WHEN(<<[when |-> SqlLe(revenue_rank, 10), then |-> "Top Tier (Rank <=10)"],
                [when |-> SqlLe(revenue_rank, 30), then |-> "Mid Tier (Rank 11-30)"]>>,
              "Growth Tier (Rank >30)")

(* QUERY 5: RANK() OVER (ORDER BY SUM(fr.fare_amount) DESC)               *)
(* rows: the groups of GROUP BY dd.driver_name with their SUM.             *)
get_revenue_tier_ranks(rows, tie, tie2) ==
    LET s == OrderBy(rows, [a, b \in Range(rows) |-> DescBefore(a.total_revenue, b.total_revenue)], tie)
        k == Column(s, "total_revenue")
        w == [i \in 1..Len(s) |->
                [driver_name |-> s[i].driver_name,
                 total_revenue |-> s[i].total_revenue,
                 revenue_rank |-> RANK(k, i)]]
        sel == [i \in 1..Len(w) |->
                [revenue_rank |-> w[i].revenue_rank,
                 driver_name |-> w[i].driver_name,
                 total_revenue |-> w[i].total_revenue,
                 performance_tier |-> performance_tier(w[i].revenue_rank)]]
    IN  [cte |-> w,
         df |-> Limit(OrderBy(sel, [a, b \in Range(sel) |-> AscBefore(a.revenue_rank,
                                                           b.revenue_rank)], tie2), 30)]

(* QUERY 6: the CASE of tier_name *)
tier_name(quality_tier) ==
    CASE_WHEN(<<[when |-> SqlEq(quality_tier, 1), then |-> "Platinum (4.8+)"],
                [when |-> SqlEq(quality_tier, 2), then |-> "Gold (4.5-4.7)"],
                [when |-> SqlEq(quality_tier, 3), then |-> "Silver (4.0-4.4)"]>>,
              "Development (Below 4.0)")

(* QUERY 6: DENSE_RANK() OVER (ORDER BY AVG(fr.average_driver_rating) DESC) *)
(* rows: the groups of GROUP BY dd.driver_name over the rated rides, with   *)
(* their COUNT and AVG; HAVING keeps the groups of at least 10 rides, and   *)
(* the window function sees only those.                                     *)
get_quality_tier_distribution(rows, tie, tie2) ==
    LET having == SelectSeq(rows, LAMBDA r : r.rides_completed >= 10)
        s == OrderBy(having, [a, b \in Range(having) |-> DescBefore(a.avg_rating, b.avg_rating)], tie)
        k == Column(s, "avg_rating")
        w == [i \in 1..Len(s) |->
                [driver_name |-> s[i].driver_name,
                 rides_completed |-> s[i].rides_completed,
                 avg_rating |-> s[i].avg_rating,
                 quality_tier |-> DENSE_RANK(k, i)]]
        sel == [i \in 1..Len(w) |->
                [quality_tier |-> w[i].quality_tier,
                 driver_name |-> w[i].driver_name,
                 rides_completed |-> w[i].rides_completed,
                 avg_rating |-> w[i].avg_rating,
                 tier_name |-> tier_name(w[i].quality_tier)]]
    IN  [cte |-> w,
         df |-> OrderBy(sel, [a, b \in Range(sel) |-> AscBefore(a.quality_tier, b.quality_tier)], tie2)]

(* QUERY 7: the CASE of commission_tier; revenue_percentile in thousandths *)
commission_tier(revenue_percentile) ==
    CASE_WHEN(<<[when |-> SqlLe(revenue_percentile, 200),
                 then |-> "Top 20% - +15% Commission"],
                [when |-> SqlLe(revenue_percentile, 500),
                 then |-> "Top 50% - +10% Commission"]>>,
              "Growth Pool - +5% Commission")

(* QUERY 7: ROUND(PERCENT_RANK() OVER (ORDER BY SUM(fr.fare_amount) DESC), 3) *)
get_commission_percentiles(rows, tie, tie2) ==
    LET s == OrderBy(rows, [a, b \in Range(rows) |-> DescBefore(a.total_revenue, b.total_revenue)], tie)
        k == Column(s, "total_revenue")
        w == [i \in 1..Len(s) |->
                [driver_name |-> s[i].driver_name,
                 total_revenue |-> s[i].total_revenue,
                 percent_rank |-> PERCENT_RANK(k, i),
                 revenue_percentile |-> Round3(PERCENT_RANK(k, i))]]
        sel == [i \in 1..Len(w) |->
                [driver_name |-> w[i].driver_name,
                 total_revenue |-> w[i].total_revenue,
                 revenue_percentile |-> w[i].revenue_percentile,
                 commission_tier |-> commission_tier(w[i].revenue_percentile)]]
    IN  [cte |-> w,
         df |-> Limit(OrderBy(sel, [a, b \in Range(sel) |-> AscBefore(a.revenue_percentile,
                                                           b.revenue_percentile)], tie2), 25)]

(* QUERY 8: the CASE of efficiency_quartile; cume_dist in thousandths *)
efficiency_quartile(efficiency_cume_dist) ==
    CASE_WHEN(<<[when |-> SqlLe(efficiency_cume_dist, 250),
                 then |-> "Q1 (Best) - Fleet Stars"],
                [when |-> SqlLe(efficiency_cume_dist, 500),
                 then |-> "Q2 (Good) - Reliable"],
                [when |-> SqlLe(efficiency_cume_dist, 750),
                 then |-> "Q3 (Fair) - Training Eligible"]>>,
              "Q4 (Development) - Mentoring Program")

(* QUERY 8: ROUND(CUME_DIST() OVER (ORDER BY AVG(avg_wait_time_minutes) ASC), 3) *)
get_efficiency_quartiles(rows, tie, tie2) ==
    LET s == OrderBy(rows, [a, b \in Range(rows) |-> AscBefore(a.avg_wait_time, b.avg_wait_time)], tie)
        k == Column(s, "avg_wait_time")
        w == [i \in 1..Len(s) |->
                [driver_name |-> s[i].driver_name,
                 avg_wait_time |-> s[i].avg_wait_time,
                 cume_dist |-> CUME_DIST(k, i),
                 efficiency_cume_dist |-> Round3(CUME_DIST(k, i))]]
        sel == [i \in 1..Len(w) |->
                [driver_name |-> w[i].driver_name,
                 avg_wait_time |-> w[i].avg_wait_time,
                 efficiency_cume_dist |-> w[i].efficiency_cume_dist,
                 efficiency_quartile |-> efficiency_quartile(w[i].efficiency_cume_dist)]]
    IN  [cte |-> w,
         df |-> OrderBy(sel, [a, b \in Range(sel) |-> AscBefore(a.efficiency_cume_dist,
                                                     b.efficiency_cume_dist)], tie2)]

(* QUERY 9: the CASE of segment_name *)
segment_name(customer_value_quartile) ==
    CASE_WHEN(<<[when |-> SqlEq(customer_value_quartile, 1), then |-> "VIP (Top 25%)"],
                [when |-> SqlEq(customer_value_quartile, 2), then |-> "Premium (25-50%)"],
                [when |-> SqlEq(customer_value_quartile, 3), then |-> "Standard (50-75%)"]>>,
              "Basic (Bottom 25%)")

(* QUERY 9: NTILE(4) OVER (ORDER BY total_fare_spent DESC)                *)
(* rows: the rows of the CTE customer_aggregates.                          *)
get_customer_value_segments(rows, tie, tie2) ==
    LET s == OrderBy(rows, [a, b \in Range(rows) |-> DescBefore(a.total_fare_spent,
                                                    b.total_fare_spent)], tie)
        w == [i \in 1..Len(s) |->
                [masked_name |-> s[i].masked_name,
                 total_fare_spent |-> s[i].total_fare_spent,
                 customer_value_quartile |-> NTILE(4, Len(s), i)]]
        sel == [i \in 1..Len(w) |->
                [customer_value_quartile |-> w[i].customer_value_quartile,
                 masked_name |-> w[i].masked_name,
                 total_fare_spent |-> w[i].total_fare_spent,
                 segment_name |-> segment_name(w[i].customer_value_quartile)]]
    IN  [cte |-> w,
         df |-> OrderBy(sel, [a, b \in Range(sel) |->
                    \/ a.customer_value_quartile < b.customer_value_quartile
                    \/ /\ a.customer_value_quartile = b.customer_value_quartile
                       /\ DescBefore(a.total_fare_spent, b.total_fare_spent)], tie2)]

-----------------------------------------------------------------------------
(* PARTITION BY.  A partitioned window sorts the rows by partition key and *)
(* then by the ORDER BY of the window, so each partition is a run of       *)
(* adjacent rows.  pk is the sequence of partition keys of the sorted      *)
(* rows and g the position of the current row in it.                       *)

(* the position of the first row of the partition of row g *)
PartitionStart(pk, g) ==
    CHOOSE lo \in 1..g : /\ \A m \in lo..g : pk[m] = pk[g]
                         /\ (lo = 1 \/ pk[lo - 1] # pk[g])

(* the position of the last row of the partition of row g *)
PartitionEnd(pk, g) ==
    CHOOSE hi \in g..Len(pk) : /\ \A m \in g..hi : pk[m] = pk[g]
                               /\ (hi = Len(pk) \/ pk[hi + 1] # pk[g])

(* mutant: the PARTITION BY is lost, the window is the whole table *)
PartitionOf_whole_table(v, pk, g) == v

(* the values v of the rows of the partition of row g, in window order *)
PartitionOf(v, pk, g) == SubSeq(v, PartitionStart(pk, g), PartitionEnd(pk, g))

(* the position of row g within its partition *)
PartitionPos(pk, g) == g - PartitionStart(pk, g) + 1

(* PARTITION BY fr.driver_key ORDER BY fr.start_time [ASC] *)
ByDriverThenStart(a, b) ==
    \/ a.driver_key < b.driver_key
    \/ a.driver_key = b.driver_key /\ AscBefore(a.start_time, b.start_time)

(* PARTITION BY fr.driver_key ORDER BY fr.start_time DESC *)
ByDriverThenStartDesc(a, b) ==
    \/ a.driver_key < b.driver_key
    \/ a.driver_key = b.driver_key /\ DescBefore(a.start_time, b.start_time)

(* dim_driver: the driver_name of a driver is modelled by its driver_key; *)
(* ORDER BY driver_name orders by it.                                      *)
driver_name_of(driver_key) == driver_key

(* ROUND(x::numeric, 1) of a non-negative fraction, in tenths *)
Round1(f) == (2 * 10 * f.num + f.den) \div (2 * f.den)

(* QUERY 10: next_ride_start - current_ride_end, in minutes; NULL when one *)
(* of the two is NULL                                                      *)
IdleMinutes(next_ride_start, current_ride_end) ==
    IF next_ride_start = NULL \/ current_ride_end = NULL THEN NULL
    ELSE next_ride_start - current_ride_end

(* QUERY 10: the CASE of idle_hours_until_next_ride, in tenths of an hour *)
idle_hours_until_next_ride(next_ride_start, current_ride_end) ==
    LET idle == IdleMinutes(next_ride_start, current_ride_end)
    IN  CASE_WHEN(<<[when |-> next_ride_start # NULL,
                     then |-> IF idle = NULL THEN NULL
                              ELSE Round1([num |-> idle, den |-> 60])]>>,
                  NULL)

(* mutant: the thresholds are inclusive *)
retention_risk_flag_inclusive(next_ride_start, current_ride_end) ==
    LET idle == IdleMinutes(next_ride_start, current_ride_end)
    IN  CASE_WHEN(<<[when |-> next_ride_start # NULL /\ idle # NULL /\ idle >= 4 * 60,
                     then |-> "CHURN RISK: >4hr idle"],
                    [when |-> next_ride_start # NULL /\ idle # NULL /\ idle >= 2 * 60,
                     then |-> "WARNING: 2-4hr idle"],
                    [when |-> next_ride_start # NULL,
                     then |-> "Normal: <2hr idle"]>>,
                  "Last ride (no next ride data)")

(* QUERY 10: the CASE of retention_risk_flag; the idle time is compared    *)
(* before it is rounded, and a comparison with a NULL idle time is not     *)
(* true                                                                    *)
retention_risk_flag(next_ride_start, current_ride_end) ==
    LET idle == IdleMinutes(next_ride_start, current_ride_end)
    IN  CASE_WHEN(<<[when |-> next_ride_start # NULL /\ idle # NULL /\ idle > 4 * 60,
                     then |-> "CHURN RISK: >4hr idle"],
                    [when |-> next_ride_start # NULL /\ idle # NULL /\ idle > 2 * 60,
                     then |-> "WARNING: 2-4hr idle"],
                    [when |-> next_ride_start # NULL,
                     then |-> "Normal: <2hr idle"]>>,
                  "Last ride (no next ride data)")

(* QUERY 10: LEAD(fr.start_time) OVER (PARTITION BY fr.driver_key         *)
(*                                     ORDER BY fr.start_time)            *)
(* rows: the rows of fact_rides joined with dim_driver; times in minutes.  *)
(* The windowed rows carry the two CASE columns of the outer SELECT, which *)
(* are defined for every row of the CTE; the outer WHERE then drops the    *)
(* rows without a next ride.                                               *)
get_churn_risk_matrix(rows, tie, tie2) ==
    LET where == SelectSeq(rows, LAMBDA r : r.driver_key \in {1, 5, 10, 15, 20})
        s == OrderBy(where, [a, b \in Range(where) |-> ByDriverThenStart(a, b)], tie)
        pk == Column(s, "driver_key")
        v == Column(s, "start_time")
        w == [g \in 1..Len(s) |->
                [ride_id |-> s[g].ride_id,
                 driver_key |-> s[g].driver_key,
                 driver_name |-> driver_name_of(s[g].driver_key),
                 current_ride_start |-> s[g].start_time,
                 current_ride_end |-> s[g].end_time,
                 next_ride_start |-> LEAD(PartitionOf(v, pk, g), PartitionPos(pk, g)),
                 idle_hours_until_next_ride |->
                     idle_hours_until_next_ride(
                         LEAD(PartitionOf(v, pk, g), PartitionPos(pk, g)), s[g].end_time),
                 retention_risk_flag |->
                     retention_risk_flag(
                         LEAD(PartitionOf(v, pk, g), PartitionPos(pk, g)), s[g].end_time)]]
        sel == SelectSeq(w, LAMBDA r : r.next_ride_start # NULL)
    IN  [cte |-> w,
         df |-> Limit(OrderBy(sel, [a, b \in Range(sel) |->
                    \/ a.driver_name < b.driver_name
                    \/ /\ a.driver_name = b.driver_name
                       /\ AscBefore(a.current_ride_start, b.current_ride_start)], tie2), 100)]

(* QUERY 11: ROW_NUMBER() and FIRST_VALUE(fr.fare_amount) OVER            *)
(* (PARTITION BY fr.driver_key ORDER BY fr.start_time ...).  The two       *)
(* windows have the same PARTITION BY and ORDER BY, so one sort serves     *)
(* both.  The five names of the outer WHERE are drivers 1, 2, 3, 4 and 6.  *)
get_driver_progression(rows, tie, tie2) ==
    LET s == OrderBy(rows, [a, b \in Range(rows) |-> ByDriverThenStart(a, b)], tie)
        pk == Column(s, "driver_key")
        k == Column(s, "start_time")
        v == Column(s, "fare_amount")
        w == [g \in 1..Len(s) |->
                [ride_id |-> s[g].ride_id,
                 driver_key |-> s[g].driver_key,
                 driver_name |-> driver_name_of(s[g].driver_key),
                 current_fare |-> s[g].fare_amount,
                 ride_number |-> ROW_NUMBER(PartitionOf(k, pk, g), PartitionPos(pk, g)),
                 current_ride_start |-> s[g].start_time,
                 first_ever_fare |-> FIRST_VALUE(PartitionOf(v, pk, g),
                                                 PartitionPos(pk, g))]]
        sel == SelectSeq(w, LAMBDA r : r.driver_name \in {1, 2, 3, 4, 6})
    IN  [cte |-> w,
         df |-> Limit(OrderBy(sel, [a, b \in Range(sel) |->
                    \/ a.driver_name < b.driver_name
                    \/ /\ a.driver_name = b.driver_name
                       /\ AscBefore(a.ride_number, b.ride_number)], tie2), 50)]

(* mutant: the index counts from 0 *)
NTH_VALUE_zero_based(v, n, i) == IF n < Len(v) THEN v[n + 1] ELSE NULL

(* NTH_VALUE(v, n) under the whole-partition frame: the value of the n-th *)
(* row of the partition, NULL when the partition has fewer than n rows.    *)
NTH_VALUE(v, n, i) == IF n <= Len(v) THEN v[n] ELSE NULL

(* SUM of a column *)
RECURSIVE SumSeq(_)
SumSeq(v) == IF v = <<>> THEN 0 ELSE Head(v) + SumSeq(Tail(v))

(* ROUND(x::numeric, 2) of a non-negative fraction, in hundredths *)
Round2(f) == (2 * 100 * f.num + f.den) \div (2 * f.den)

(* mutant: the second window has no PARTITION BY *)
RowNumberIn_unpartitioned(sD, pkD, ride_id) ==
    CHOOSE g \in 1..Len(sD) : sD[g].ride_id = ride_id

(* the row number a second window (sorted as sD, partition keys pkD) gives *)
(* the ride ride_id                                                        *)
RowNumberIn(sD, pkD, ride_id) ==
    LET gD == CHOOSE g \in 1..Len(sD) : sD[g].ride_id = ride_id
    IN  ROW_NUMBER(PartitionOf(pkD, pkD, gD), PartitionPos(pkD, gD))

(* QUERY 12: the CASE of quality_trend_flag, on the difference            *)
(* most_recent_rating - lifetime_avg_rating in hundredths; no ELSE arm,    *)
(* so the result is NULL when no arm is true.                              *)
quality_trend_flag(diff) ==
    CASE_WHEN(<<[when |-> diff # NULL /\ diff < -50,
                 then |-> "ALERT: Quality declining >0.5 stars"],
                [when |-> diff # NULL /\ diff < 0,
                 then |-> "WARNING: Slight quality decline"],
                [when |-> diff # NULL /\ diff >= 0,
                 then |-> "POSITIVE: Maintaining or improving"]>>,
              "NULL")

(* QUERY 12: LAST_VALUE(fr.average_driver_rating) OVER (PARTITION BY      *)
(* fr.driver_key ORDER BY fr.start_time ...) and ROW_NUMBER() OVER         *)
(* (PARTITION BY fr.driver_key ORDER BY fr.start_time DESC): two windows   *)
(* with different orders, so two sorts (tie, tieD), the second over the    *)
(* output of the first.  Ratings are whole stars; the rounded columns are  *)
(* in hundredths of a star.                                                *)
get_quality_trend_alerts(rows, tie, tieD, tie2) ==
    LET where == SelectSeq(rows, LAMBDA r : r.average_driver_rating # NULL)
        s == OrderBy(where, [a, b \in Range(where) |-> ByDriverThenStart(a, b)], tie)
        pk == Column(s, "driver_key")
        v == Column(s, "average_driver_rating")
        sD == OrderBy(s, [a, b \in Range(s) |-> ByDriverThenStartDesc(a, b)], tieD)
        pkD == Column(sD, "driver_key")
        w == [g \in 1..Len(s) |->
                [ride_id |-> s[g].ride_id,
                 driver_key |-> s[g].driver_key,
                 driver_name |-> driver_name_of(s[g].driver_key),
                 start_time |-> s[g].start_time,
                 average_driver_rating |-> s[g].average_driver_rating,
                 total_rides |-> Len(PartitionOf(v, pk, g)),
                 lifetime_avg_rating |->
                     Round2([num |-> SumSeq(PartitionOf(v, pk, g)),
                             den |-> Len(PartitionOf(v, pk, g))]),
                 most_recent_rating |->
                     100 * LAST_VALUE(PartitionOf(v, pk, g), PartitionPos(pk, g)),
                 rn |-> RowNumberIn(sD, pkD, s[g].ride_id)]]
        kept == SelectSeq(w, LAMBDA r : r.rn = 1)
        sel == [i \in 1..Len(kept) |->
                [driver_name |-> kept[i].driver_name,
                 total_rides |-> kept[i].total_rides,
                 lifetime_avg_rating |-> kept[i].lifetime_avg_rating,
                 most_recent_rating |-> kept[i].most_recent_rating,
                 recent_trend |-> kept[i].most_recent_rating - kept[i].lifetime_avg_rating,
                 quality_trend_flag |->
                     quality_trend_flag(kept[i].most_recent_rating
                                          - kept[i].lifetime_avg_rating)]]
    IN  [cte |-> w,
         df |-> Limit(OrderBy(sel, [a, b \in Range(sel) |-> a.recent_trend < b.recent_trend], tie2), 20)]

(* mutant: the thresholds are exclusive *)
driver_lifecycle_stage_exclusive(total_rides_to_date) ==
    CASE_WHEN(<<[when |-> total_rides_to_date > 100, then |-> "Active (100+ rides)"],
                [when |-> total_rides_to_date > 50, then |-> "Engaged (50+ rides)"],
                [when |-> total_rides_to_date > 10, then |-> "Onboarded (10+ rides)"]>>,
              "New (<10 rides)")

(* QUERY 13: the CASE of driver_lifecycle_stage *)
driver_lifecycle_stage(total_rides_to_date) ==
    CASE_WHEN(<<[when |-> total_rides_to_date >= 100, then |-> "Active (100+ rides)"],
                [when |-> total_rides_to_date >= 50, then |-> "Engaged (50+ rides)"],
                [when |-> total_rides_to_date >= 10, then |-> "Onboarded (10+ rides)"]>>,
              "New (<10 rides)")

(* QUERY 13: the CASE of onboarding_quality; a comparison with NULL is not *)
(* true, so the ELSE arm is taken.                                         *)
onboarding_quality(total_rides_to_date, ride_1_fare, ride_10_fare) ==
    CASE_WHEN(<<[when |-> /\ total_rides_to_date >= 50
                          /\ ride_1_fare # NULL /\ ride_10_fare # NULL
                          /\ ride_10_fare > ride_1_fare,
                 then |-> "Strong onboarding (fares increasing)"]>>,
              "Monitor growth pattern")

(* QUERY 13: NTH_VALUE(fr.fare_amount, n) OVER (PARTITION BY fr.driver_key *)
(* ORDER BY fr.start_time ...) for n = 1, 10, 50, 100, and ROW_NUMBER()    *)
(* over the descending order.                                              *)
get_driver_milestones(rows, tie, tieD, tie2) ==
    LET s == OrderBy(rows, [a, b \in Range(rows) |-> ByDriverThenStart(a, b)], tie)
        pk == Column(s, "driver_key")
        v == Column(s, "fare_amount")
        sD == OrderBy(s, [a, b \in Range(s) |-> ByDriverThenStartDesc(a, b)], tieD)
        pkD == Column(sD, "driver_key")
        w == [g \in 1..Len(s) |->
                [ride_id |-> s[g].ride_id,
                 driver_key |-> s[g].driver_key,
                 driver_name |-> driver_name_of(s[g].driver_key),
                 total_rides_to_date |-> Len(PartitionOf(v, pk, g)),
                 ride_1_fare |-> NTH_VALUE(PartitionOf(v, pk, g), 1, PartitionPos(pk, g)),
                 ride_10_fare |-> NTH_VALUE(PartitionOf(v, pk, g), 10, PartitionPos(pk, g)),
                 ride_50_fare |-> NTH_VALUE(PartitionOf(v, pk, g), 50, PartitionPos(pk, g)),
                 ride_100_fare |-> NTH_VALUE(PartitionOf(v, pk, g), 100, PartitionPos(pk, g)),
                 rn |-> RowNumberIn(sD, pkD, s[g].ride_id)]]
        kept == SelectSeq(w, LAMBDA r : r.rn = 1 /\ r.total_rides_to_date >= 10)
        sel == [i \in 1..Len(kept) |->
                [driver_name |-> kept[i].driver_name,
                 total_rides_to_date |-> kept[i].total_rides_to_date,
                 driver_lifecycle_stage |->
                     driver_lifecycle_stage(kept[i].total_rides_to_date),
                 ride_1_fare |-> kept[i].ride_1_fare,
                 ride_10_fare |-> kept[i].ride_10_fare,
                 ride_50_fare |-> kept[i].ride_50_fare,
                 ride_100_fare |-> kept[i].ride_100_fare,
                 onboarding_quality |->
                     onboarding_quality(kept[i].total_rides_to_date,
                                        kept[i].ride_1_fare, kept[i].ride_10_fare)]]
    IN  [cte |-> w,
         df |-> Limit(OrderBy(sel, [a, b \in Range(sel) |->
                    a.total_rides_to_date > b.total_rides_to_date], tie2), 30)]

-----------------------------------------------------------------------------
(* BASIC QUERIES (Q1-Q3): GROUP BY, ORDER BY and LIMIT, no window function *)

(* QUERY 1: HAVING SUM(total_rides_that_day) > 100,                        *)
(* ORDER BY overall_avg_wait_time_minutes ASC, total_rides DESC LIMIT 10   *)
get_driver_efficiency(rows, tie) ==
    LET having == SelectSeq(rows, LAMBDA r : r.total_rides > 100)
    IN  [cte |-> having,
         df |-> Limit(OrderBy(having, [a, b \in Range(having) |->
                    \/ AscBefore(a.overall_avg_wait_time_minutes,
                                 b.overall_avg_wait_time_minutes)
                    \/ /\ a.overall_avg_wait_time_minutes = b.overall_avg_wait_time_minutes
                       /\ DescBefore(a.total_rides, b.total_rides)], tie), 10)]

(* QUERY 2: ORDER BY total_revenue DESC LIMIT 20 *)
get_peak_hours(rows, tie) ==
    [cte |-> rows,
     df |-> Limit(OrderBy(rows, [a, b \in Range(rows) |->
                DescBefore(a.total_revenue, b.total_revenue)], tie), 20)]

(* QUERY 3: ORDER BY total_fare_spent DESC, total_rides DESC LIMIT 5 *)
get_vip_customers(rows, tie) ==
    [cte |-> rows,
     df |-> Limit(OrderBy(rows, [a, b \in Range(rows) |->
                \/ DescBefore(a.total_fare_spent, b.total_fare_spent)
                \/ /\ a.total_fare_spent = b.total_fare_spent
                   /\ DescBefore(a.total_rides, b.total_rides)], tie), 5)]

-----------------------------------------------------------------------------
(* The plot methods that compute on the DataFrame *)

(* plot_vip_spending_pie: df['hover_text'] = ... assigns a new column to   *)
(* the DataFrame it was passed; the text is built from the row's name,     *)
(* spending and rides.                                                     *)
plot_vip_spending_pie(d) ==
    [i \in 1..Len(d) |->
        [masked_name |-> d[i].masked_name,
         total_fare_spent |-> d[i].total_fare_spent,
         total_rides |-> d[i].total_rides,
         hover_text |-> <<d[i].masked_name, d[i].total_fare_spent, d[i].total_rides>>]]

(* the segment labels in the order groupby sorts its keys *)
SegmentLabels ==
    <<"Basic (Bottom 25%)", "Premium (25-50%)", "Standard (50-75%)", "VIP (Top 25%)">>

(* mutant: the minimum is read off the first row of the group *)
SeriesMin_first_row(v) ==
    LET known == {x \in Range(v) : x # NULL}
    IN  IF known = {} THEN NULL ELSE v[1]

(* pandas min / max of a column: NaN values are skipped; NaN (NULL) when   *)
(* no value is left                                                        *)
SeriesMin(v) ==
    LET known == {x \in Range(v) : x # NULL}
    IN  IF known = {} THEN NULL ELSE CHOOSE x \in known : \A y \in known : x <= y

SeriesMax(v) ==
    LET known == {x \in Range(v) : x # NULL}
    IN  IF known = {} THEN NULL ELSE CHOOSE x \in known : \A y \in known : x >= y

(* pandas sum: NaN values are skipped, the sum of nothing is 0 *)
SeriesSum(v) == SumSeq(SelectSeq(v, LAMBDA x : x # NULL))

(* the mean of no value: NaN, the fraction 0/0 *)
NaN == [num |-> 0, den |-> 0]

(* pandas mean: the sum over the number of values that are not NaN, kept   *)
(* as a fraction; NaN when no value is left                                *)
SeriesMean(v) ==
    IF SelectSeq(v, LAMBDA x : x # NULL) = <<>> THEN NaN
    ELSE [num |-> SeriesSum(v), den |-> Len(SelectSeq(v, LAMBDA x : x # NULL))]

(* mutant: the examples are the three biggest spenders of the frame *)
Head3_of_frame(members, d) ==
    [i \in 1..(IF Len(d) < 3 THEN Len(d) ELSE 3) |-> d[i].masked_name]

(* x.head(3).tolist() of the masked_name of a group: its first three       *)
(* members in the order of the rows of the DataFrame d                     *)
Head3(members, d) ==
    [i \in 1..(IF Len(members) < 3 THEN Len(members) ELSE 3) |-> members[i].masked_name]

(* plot_customer_value_segments: df.groupby("segment_name").agg(...),      *)
(* reset_index, and sort_values("customer_count", ascending=False), whose  *)
(* default sort keeps no order among equal counts.                         *)
plot_customer_value_segments(d, tie) ==
    LET present == SelectSeq(SegmentLabels,
                             LAMBDA l : \E i \in 1..Len(d) : d[i].segment_name = l)
        group(l) == SelectSeq(d, LAMBDA r : r.segment_name = l)
        stats == [g \in 1..Len(present) |->
                    LET members == group(present[g])
                        fares == Column(members, "total_fare_spent")
                    IN  [segment_name |-> present[g],
                         min_fare |-> SeriesMin(fares),
                         max_fare |-> SeriesMax(fares),
                         avg_fare |-> SeriesMean(fares),
                         total_fare |-> SeriesSum(fares),
                         customer_count |-> Len(members),
                         top_customers |-> Head3(members, d)]]
    IN  OrderBy(stats, [a, b \in Range(stats) |-> a.customer_count > b.customer_count], tie)

(* plot_driver_milestones: milestone_summary, the number of rows of the    *)
(* DataFrame whose ride_k_fare is not NaN, for each milestone k            *)
plot_driver_milestones(d) ==
    LET reaching(col) == Cardinality({i \in 1..Len(d) : d[i][col] # NULL})
    IN  <<[Milestone |-> "Ride #1", Drivers_Reaching |-> reaching("ride_1_fare")],
          [Milestone |-> "Ride #10", Drivers_Reaching |-> reaching("ride_10_fare")],
          [Milestone |-> "Ride #50", Drivers_Reaching |-> reaching("ride_50_fare")],
          [Milestone |-> "Ride #100", Drivers_Reaching |-> reaching("ride_100_fare")]>>

-----------------------------------------------------------------------------
(* The tables the queries may find in the database *)

(* Row[i][x] is the row at scan position i made of the field values x; a  *)
(* table has up to maxRows rows, each with any field values               *)
TablesUpTo(maxRows, Row) ==
    UNION {{[i \in 1..n |-> Row[i][f[i]]] : f \in [1..n -> DOMAIN Row[1]]} : n \in 0..maxRows}

(* v_driver_daily_utilization grouped by driver_name (Q1) *)
DriverUtilizationTables ==
    TablesUpTo(MaxDrivers,
      [i \in 1..MaxDrivers |-> [x \in [wait : {10, 20}, rides : {100, 101}] |->
        [driver_name |-> i,
         overall_avg_wait_time_minutes |-> x.wait,
         total_rides |-> x.rides]]])

(* fact_rides grouped by day and hour (Q2) *)
PeakHourTables ==
    TablesUpTo(MaxDrivers,
      [i \in 1..MaxDrivers |-> [x \in Keys |->
        [slot |-> i, total_revenue |-> x]]])

(* fact_rides grouped by customer (Q3) *)
VipTables ==
    TablesUpTo(MaxDrivers,
      [i \in 1..MaxDrivers |-> [x \in [fare : {10, 20}, rides : {1, 2}] |->
        [masked_name |-> i,
         total_fare_spent |-> x.fare,
         total_rides |-> x.rides]]])

(* the CTE driver_efficiency (Q4) *)
DriverEfficiencyTables ==
    TablesUpTo(MaxDrivers,
      [i \in 1..MaxDrivers |-> [x \in Keys |->
        [driver_name |-> i, overall_avg_wait_time_minutes |-> x]]])

(* fact_rides grouped by driver_name with SUM(fare_amount) (Q5, Q7) *)
DriverRevenueTables ==
    TablesUpTo(MaxDrivers,
      [i \in 1..MaxDrivers |-> [x \in Keys |->
        [driver_name |-> i, total_revenue |-> x]]])

(* Driver counts around the thresholds of performance_tier (ranks 10 and *)
(* 30) and the LIMIT 30 of Q5.                                             *)
TierSizes == {11, 31}

(* fact_rides grouped by driver_name for that many drivers (Q5): revenues  *)
(* all distinct or equal in pairs, scanned in rising or falling order.     *)
TierRevenueTables ==
    {[i \in 1..n |->
        [driver_name |-> i,
         total_revenue |-> 10 * (((IF rising THEN i ELSE n + 1 - i) + pair - 1) \div pair)]] :
      n \in TierSizes, pair \in {1, 2}, rising \in BOOLEAN}

(* the rated rides grouped by driver_name with COUNT and AVG (Q6) *)
DriverRatingTables ==
    TablesUpTo(MaxDrivers,
      [i \in 1..MaxDrivers |-> [x \in [rating : KeyValues, rides : {9, 10}] |->
        [driver_name |-> i,
         rides_completed |-> x.rides,
         avg_rating |-> x.rating]]])

(* v_driver_daily_utilization grouped by driver_name with AVG (Q8) *)
DriverWaitTables ==
    TablesUpTo(MaxDrivers,
      [i \in 1..MaxDrivers |-> [x \in Keys |->
        [driver_name |-> i, avg_wait_time |-> x]]])

(* the CTE customer_aggregates (Q9) *)
CustomerTables ==
    TablesUpTo(MaxCustomers,
      [i \in 1..MaxCustomers |-> [x \in {10, 20} |->
        [masked_name |-> i, total_fare_spent |-> x]]])

(* the CTE customer_aggregates of a few customers, among them customers   *)
(* whose SUM(fr.fare_amount) is NULL (Q9)                                  *)
CustomerNullTables ==
    TablesUpTo(MaxDrivers,
      [i \in 1..MaxDrivers |-> [x \in Keys |->
        [masked_name |-> i, total_fare_spent |-> x]]])

(* Customer counts that give a quartile more members than the three       *)
(* examples plot_customer_value_segments lists.                            *)
SegmentSizes == {14}

(* the CTE customer_aggregates of that many customers (Q9): totals all     *)
(* distinct or equal in pairs, scanned in rising or falling order.         *)
CustomerSegmentTables ==
    {[i \in 1..n |->
        [masked_name |-> i,
         total_fare_spent |-> 10 * (((IF rising THEN i ELSE n + 1 - i) + pair - 1) \div pair)]] :
      n \in SegmentSizes, pair \in {1, 2}, rising \in BOOLEAN}

(* start times of rides *)
Times == {1, 2}

(* fact_rides: driver and start of each ride (Q10); the rides are short,   *)
(* each ends within the minute it starts in                                *)
RideStartTables ==
    TablesUpTo(MaxRides,
      [i \in 1..MaxRides |-> [x \in [driver : {1, 2, 5}, start : Times \cup {NULL}] |->
        [ride_id |-> i, driver_key |-> x.driver,
         start_time |-> x.start, end_time |-> x.start]]])

(* fact_rides holding two rides of driver 1 and two of driver 5 (Q10), in  *)
(* blocks or interleaved, scanned oldest first or newest first.            *)
ChurnPairTables ==
    {[i \in 1..4 |->
        [ride_id |-> i, driver_key |-> drivers[i],
         start_time |-> IF oldestFirst THEN i ELSE 5 - i,
         end_time |-> IF oldestFirst THEN i ELSE 5 - i]] :
      drivers \in {<<5, 5, 1, 1>>, <<5, 1, 5, 1>>, <<1, 5, 1, 5>>, <<1, 1, 5, 5>>},
      oldestFirst \in BOOLEAN}

(* Minutes between the end of a ride and the start of the driver's next    *)
(* ride, around the thresholds of retention_risk_flag (2 and 4 hours); 243 *)
(* minutes are 4.05 hours.                                                 *)
IdleGaps == {0, 119, 120, 121, 240, 241, 243}

(* the length of a ride, in minutes *)
RideMinutes == 30

(* fact_rides holding three rides of one driver (Q10), one after the       *)
(* other with the given idle times between them, scanned oldest first or   *)
(* newest first; the end of the first ride may be missing (NULL).          *)
ChurnIdleTables ==
    {LET start == <<60, 60 + RideMinutes + gap[1],
                    60 + 2 * RideMinutes + gap[1] + gap[2]>>
         ride(n) == [ride_id |-> n, driver_key |-> d,
                     start_time |-> start[n],
                     end_time |-> IF n = 1 /\ ~ended THEN NULL
                                  ELSE start[n] + RideMinutes]
     IN  [i \in 1..3 |-> ride(IF oldestFirst THEN i ELSE 4 - i)] :
      d \in {1, 5}, gap \in [1..2 -> IdleGaps], oldestFirst \in BOOLEAN,
      ended \in BOOLEAN}

(* fact_rides: driver, start and fare of each ride (Q11, Q13) *)
RideFareTables ==
    TablesUpTo(MaxRides,
      [i \in 1..MaxRides |-> [x \in [driver : {1, 5}, start : Times, fare : {10, 20}] |->
        [ride_id |-> i, driver_key |-> x.driver,
         start_time |-> x.start, fare_amount |-> x.fare]]])

(* fact_rides: driver, start and rating (whole stars) of each ride (Q12) *)
RideRatingTables ==
    TablesUpTo(MaxRides,
      [i \in 1..MaxRides |-> [x \in [driver : {1, 5}, start : Times, rating : {4, 5}] |->
        [ride_id |-> i, driver_key |-> x.driver,
         start_time |-> x.start,
         average_driver_rating |-> x.rating]]])

(* fact_rides holding three rides of one driver, the last two starting at  *)
(* the same time, each rated or unrated (Q12)                              *)
UnratedRideTables ==
    {[i \in 1..3 |->
        [ride_id |-> i, driver_key |-> d,
         start_time |-> IF i = 1 THEN 1 ELSE 2,
         average_driver_rating |-> f[i]]] :
      d \in {1, 5}, f \in [1..3 -> {4, 5, NULL}]}

(* Ride counts of one driver around the first milestone of Q13 (the 10th  *)
(* ride): NTH_VALUE(fr.fare_amount, 10) is NULL below it.                  *)
MilestoneSizes == {9, 10, 11}

(* fact_rides holding the rides of one driver who is at a milestone: the   *)
(* rides have distinct start times, are scanned oldest first or newest     *)
(* first, and their fares alternate between two values, NULL among them.   *)
MilestoneRideTables ==
    {[i \in 1..n |->
        [ride_id |-> i, driver_key |-> d,
         start_time |-> IF oldestFirst THEN i ELSE n + 1 - i,
         fare_amount |-> f[(i % 2) + 1]]] :
      n \in MilestoneSizes, d \in {1, 5}, oldestFirst \in BOOLEAN,
      f \in [1..2 -> {10, 20, NULL}]}

(* Ride counts of driver 1 and of driver 5 on both sides of the later      *)
(* milestones of Q13 (the 50th and the 100th ride)                         *)
LifecyclePairs == {<<100, 49>>, <<99, 50>>}

(* fact_rides holding that many rides of the two drivers: the rides of     *)
(* driver 5 are scanned first, each driver's rides newest first, with      *)
(* fares alternating between 10 and 20.                                    *)
LifecycleRideTables ==
    {[i \in 1..(p[1] + p[2]) |->
        [ride_id |-> i,
         driver_key |-> IF i <= p[2] THEN 5 ELSE 1,
         start_time |-> IF i <= p[2] THEN p[2] + 1 - i ELSE p[1] + p[2] + 1 - i,
         fare_amount |-> 10 * ((i % 2) + 1)]] :
      p \in LifecyclePairs}

-----------------------------------------------------------------------------
(* generate_all_reports *)

Init ==
    /\ pc = 1
    /\ stage = "query"
    /\ ok = TRUE
    /\ df = <<>>
    /\ db = <<>>
    /\ cte = <<>>
    /\ segment_stats = <<>>
    /\ milestone_summary = <<>>
    /\ last_report = LastReport
    /\ conn = "open"
    /\ files = {}
    /\ printed = {}
    /\ log = <<>>

(* generate_all_reports is about to call the get_ method of `report` *)
AtQuery(report) == pc = report /\ stage = "query"

(* fetch_data returned the DataFrame of query result q read from rows *)
Fetched(rows, q) ==
    /\ db' = rows
    /\ cte' = q.cte
    /\ df' = q.df
    /\ ok' = TRUE
    /\ stage' = "plot"
    /\ UNCHANGED <<pc, segment_stats, milestone_summary>>
    /\ UNCHANGED runVars

call_get_driver_efficiency ==
    /\ AtQuery(1)
    /\ \E rows \in DriverUtilizationTables, tie \in TiePolicies :
           Fetched(rows, get_driver_efficiency(rows, tie))

call_get_peak_hours ==
    /\ AtQuery(2)
    /\ \E rows \in PeakHourTables, tie \in TiePolicies :
           Fetched(rows, get_peak_hours(rows, tie))

call_get_vip_customers ==
    /\ AtQuery(3)
    /\ \E rows \in VipTables, tie \in TiePolicies :
           Fetched(rows, get_vip_customers(rows, tie))

call_get_driver_leaderboard ==
    /\ AtQuery(4)
    /\ \E rows \in DriverEfficiencyTables, tie \in TiePolicies, tie2 \in TiePolicies :
           Fetched(rows, get_driver_leaderboard(rows, tie, tie2))

call_get_revenue_tier_ranks ==
    /\ AtQuery(5)
    /\ \E rows \in DriverRevenueTables \cup TierRevenueTables,
          tie \in TiePolicies, tie2 \in TiePolicies :
           Fetched(rows, get_revenue_tier_ranks(rows, tie, tie2))

call_get_quality_tier_distribution ==
    /\ AtQuery(6)
    /\ \E rows \in DriverRatingTables, tie \in TiePolicies, tie2 \in TiePolicies :
           Fetched(rows, get_quality_tier_distribution(rows, tie, tie2))

call_get_commission_percentiles ==
    /\ AtQuery(7)
    /\ \E rows \in DriverRevenueTables, tie \in TiePolicies, tie2 \in TiePolicies :
           Fetched(rows, get_commission_percentiles(rows, tie, tie2))

call_get_efficiency_quartiles ==
    /\ AtQuery(8)
    /\ \E rows \in DriverWaitTables, tie \in TiePolicies, tie2 \in TiePolicies :
           Fetched(rows, get_efficiency_quartiles(rows, tie, tie2))

call_get_customer_value_segments ==
    /\ AtQuery(9)
    /\ \E rows \in CustomerTables \cup CustomerNullTables \cup CustomerSegmentTables,
          tie \in TiePolicies, tie2 \in TiePolicies :
           Fetched(rows, get_customer_value_segments(rows, tie, tie2))

call_get_churn_risk_matrix ==
    /\ AtQuery(10)
    /\ \E rows \in RideStartTables \cup ChurnPairTables \cup ChurnIdleTables,
          tie \in TiePolicies, tie2 \in TiePolicies :
           Fetched(rows, get_churn_risk_matrix(rows, tie, tie2))

call_get_driver_progression ==
    /\ AtQuery(11)
    /\ \E rows \in RideFareTables, tie \in TiePolicies, tie2 \in TiePolicies :
           Fetched(rows, get_driver_progression(rows, tie, tie2))

call_get_quality_trend_alerts ==
    /\ AtQuery(12)
    /\ \E rows \in RideRatingTables \cup UnratedRideTables, tie \in TiePolicies, tieD \in TiePolicies,
          tie2 \in TiePolicies :
           Fetched(rows, get_quality_trend_alerts(rows, tie, tieD, tie2))

call_get_driver_milestones ==
    /\ AtQuery(13)
    /\ \E rows \in RideFareTables \cup MilestoneRideTables \cup LifecycleRideTables,
          tie \in TiePolicies, tieD \in TiePolicies, tie2 \in TiePolicies :
           Fetched(rows, get_driver_milestones(rows, tie, tieD, tie2))

(* fetch_data: the query raised; the exception is printed and None returned *)
fetch_data_failed ==
    /\ pc \in 1..LastReport
    /\ stage = "query"
    /\ ok' = FALSE
    /\ df' = <<>>
    /\ db' = <<>>
    /\ cte' = <<>>
    /\ stage' = "plot"
    /\ UNCHANGED <<pc, segment_stats, milestone_summary>>
    /\ UNCHANGED runVars

(* the step of the next report; the DataFrame of this one is not used again *)
NextReport ==
    /\ pc' = pc + 1
    /\ stage' = "query"
    /\ ok' = TRUE
    /\ df' = <<>>
    /\ db' = <<>>
    /\ cte' = <<>>
    /\ segment_stats' = <<>>
    /\ milestone_summary' = <<>>
    /\ UNCHANGED runVars

(* mutant: only None is tested, an empty DataFrame is plotted *)
HasData_not_None == stage = "plot" /\ ok

(* if df is not None and not df.empty *)
HasData == stage = "plot" /\ ok /\ df # <<>>

(* self.plot_...(df): the plot methods of the reports other than 3, 9 and  *)
(* 13 read the DataFrame and write an HTML file; none assigns to df        *)
plot_report ==
    /\ pc \in (1..LastReport) \ {3, 9, 13}
    /\ HasData
    /\ stage' = "done"
    /\ UNCHANGED <<pc, ok, df, db, cte, segment_stats, milestone_summary>>
    /\ UNCHANGED runVars

(* report 3: self.plot_vip_customers(df_vip) reads the DataFrame *)
call_plot_vip_customers ==
    /\ pc = 3
    /\ HasData
    /\ stage' = "pie"
    /\ UNCHANGED <<pc, ok, df, db, cte, segment_stats, milestone_summary>>
    /\ UNCHANGED runVars

(* report 3: self.plot_vip_spending_pie(df_vip), on the same DataFrame *)
call_plot_vip_spending_pie ==
    /\ pc = 3
    /\ stage = "pie"
    /\ df' = plot_vip_spending_pie(df)
    /\ stage' = "done"
    /\ UNCHANGED <<pc, ok, db, cte, segment_stats, milestone_summary>>
    /\ UNCHANGED runVars

(* report 9: self.plot_customer_value_segments(df_segments) *)
call_plot_customer_value_segments ==
    /\ pc = 9
    /\ HasData
    /\ \E tie \in TiePolicies :
         segment_stats' = plot_customer_value_segments(df, tie)
    /\ stage' = "done"
    /\ UNCHANGED <<pc, ok, df, db, cte, milestone_summary>>
    /\ UNCHANGED runVars

(* report 13: self.plot_driver_milestones(df_milestones) *)
call_plot_driver_milestones ==
    /\ pc = 13
    /\ HasData
    /\ milestone_summary' = plot_driver_milestones(df)
    /\ stage' = "done"
    /\ UNCHANGED <<pc, ok, df, db, cte, segment_stats>>
    /\ UNCHANGED runVars

(* the plots are written; on to the step of the next report *)
report_done ==
    /\ stage = "done"
    /\ NextReport

(* else: print("[FAILED] No data for ...") *)
no_data ==
    /\ pc \in 1..LastReport
    /\ stage = "plot"
    /\ ~(ok /\ df # <<>>)
    /\ NextReport

Next ==
    \/ call_get_driver_efficiency
    \/ call_get_peak_hours
    \/ call_get_vip_customers
    \/ call_get_driver_leaderboard
    \/ call_get_revenue_tier_ranks
    \/ call_get_quality_tier_distribution
    \/ call_get_commission_percentiles
    \/ call_get_efficiency_quartiles
    \/ call_get_customer_value_segments
    \/ call_get_churn_risk_matrix
    \/ call_get_driver_progression
    \/ call_get_quality_trend_alerts
    \/ call_get_driver_milestones
    \/ fetch_data_failed
    \/ plot_report
    \/ call_plot_vip_customers
    \/ call_plot_vip_spending_pie
    \/ call_plot_customer_value_segments
    \/ call_plot_driver_milestones
    \/ report_done
    \/ no_data

Spec == Init /\ [][Next]_vars

-----------------------------------------------------------------------------
(* One run of generate_all_reports as a whole (RunSpec) *)

(* RideShareAnalytics (08_analytics_dashboard.py) has the first three      *)
(* reports of AnalyticsDashboard and the same generate_all_reports around  *)
(* them.                                                                   *)
BasicReports == 3

(* the numbers of the HTML files (01_ .. 15_) that the plot methods of     *)
(* `report` write, in the order generate_all_reports calls them: reports 2 *)
(* and 3 have two plot methods, every other report has one                 *)
ReportFiles(report) ==
    IF report = 1 THEN <<1>>
    ELSE IF report = 2 THEN <<2, 3>>
    ELSE IF report = 3 THEN <<4, 5>>
    ELSE <<report + 2>>

(* what generate_all_reports looks at in a DataFrame: df.empty *)
RunFrames == {<<>>, <<[row |-> 1]>>}

(* what a plot method may raise: a missing column, a value plotly rejects,  *)
(* a file that cannot be written                                           *)
PlotErrors == {"KeyError", "ValueError", "OSError"}

(* mutant: the try has no except clause *)
except_Exception_absent(error) == FALSE

(* except Exception as e: the clause catches every error that is an        *)
(* Exception                                                               *)
except_Exception(error) == error \in {"KeyError", "ValueError", "OSError", "Exception"}

(* mutant: each report has a try of its own, and the run goes on *)
AfterExcept_per_report == "done"

(* where control goes when the except clause is through: the one try       *)
(* statement encloses all the reports, so to its finally clause            *)
AfterExcept == "finally"

RunInit ==
    /\ pc = 1
    /\ stage = "query"
    /\ ok = TRUE
    /\ df = <<>>
    /\ db = <<>>
    /\ cte = <<>>
    /\ segment_stats = <<>>
    /\ milestone_summary = <<>>
    /\ last_report \in {BasicReports, LastReport}
    /\ conn = "open"
    /\ files = {}
    /\ printed = {}
    /\ log = <<>>

(* df = self.get_...(): fetch_data sends the query of report pc and        *)
(* returns its DataFrame                                                   *)
run_fetch_data ==
    /\ pc \in 1..last_report
    /\ stage = "query"
    /\ \E d \in RunFrames : df' = d
    /\ ok' = TRUE
    /\ log' = Append(log, [op |-> "query", report |-> pc])
    /\ stage' = "plot"
    /\ UNCHANGED <<pc, db, cte, segment_stats, milestone_summary, last_report, conn, files, printed>>

(* fetch_data: pd.read_sql raised; the exception is caught and printed and *)
(* None returned                                                           *)
run_fetch_data_failed ==
    /\ pc \in 1..last_report
    /\ stage = "query"
    /\ df' = <<>>
    /\ ok' = FALSE
    /\ log' = Append(log, [op |-> "query", report |-> pc])
    /\ printed' = printed \cup {"[FAILED] Query execution failed"}
    /\ stage' = "plot"
    /\ UNCHANGED <<pc, db, cte, segment_stats, milestone_summary, last_report, conn, files>>

(* the next report: print("Generating Report ...") and its get_ call *)
RunNextReport ==
    /\ pc' = pc + 1
    /\ stage' = "query"
    /\ ok' = TRUE
    /\ df' = <<>>
    /\ UNCHANGED <<db, cte, segment_stats, milestone_summary, last_report, conn, files, log>>

(* else: print("[FAILED] No data for ...") *)
run_no_data ==
    /\ pc \in 1..last_report
    /\ stage = "plot"
    /\ ~(ok /\ df # <<>>)
    /\ printed' = printed \cup {"[FAILED] No data"}
    /\ RunNextReport

(* the first plot method of the report writes its file and returns *)
run_plot ==
    /\ pc \in 1..last_report
    /\ HasData
    /\ files' = files \cup {ReportFiles(pc)[1]}
    /\ printed' = printed \cup {"[OK] Generated"}
    /\ stage' = IF Len(ReportFiles(pc)) > 1 THEN "second" ELSE "done"
    /\ UNCHANGED <<pc, ok, df, db, cte, segment_stats, milestone_summary, last_report, conn, log>>

(* the second plot method of reports 2 and 3 writes its file and returns *)
run_second_plot ==
    /\ stage = "second"
    /\ files' = files \cup {ReportFiles(pc)[2]}
    /\ printed' = printed \cup {"[OK] Generated"}
    /\ stage' = "done"
    /\ UNCHANGED <<pc, ok, df, db, cte, segment_stats, milestone_summary, last_report, conn, log>>

(* a plot method raises before it writes its file: control leaves the try  *)
(* body; the except clause prints the error, and the finally clause is     *)
(* next                                                                    *)
run_plot_raises ==
    /\ pc \in 1..last_report
    /\ HasData \/ stage = "second"
    /\ \E error \in PlotErrors :
         IF except_Exception(error)
         THEN /\ printed' = printed \cup {"[FAILED] Error generating reports"}
              /\ stage' = AfterExcept
         ELSE /\ printed' = printed
              /\ stage' = "finally, raising"
    /\ UNCHANGED <<pc, ok, df, db, cte, segment_stats, milestone_summary, last_report, conn, files, log>>

(* the plot methods of the report have returned *)
run_report_done ==
    /\ stage = "done"
    /\ printed' = printed
    /\ RunNextReport

(* after the last report: the banner, and the end of the try body *)
run_banner ==
    /\ pc = last_report + 1
    /\ stage = "query"
    /\ printed' = printed \cup {"[OK] ALL REPORTS GENERATED SUCCESSFULLY!"}
    /\ stage' = "finally"
    /\ UNCHANGED <<pc, ok, df, db, cte, segment_stats, milestone_summary, last_report, conn, files, log>>

(* finally: self.close(): if self.conn: self.conn.close(), and the message; *)
(* then generate_all_reports returns, or an exception that no clause       *)
(* caught goes on to the caller                                            *)
run_close ==
    /\ stage \in {"finally", "finally, raising"}
    /\ conn' = "closed"
    /\ printed' = printed \cup {"[OK] Database connection closed"}
    /\ log' = Append(log, [op |-> "close", report |-> pc])
    /\ stage' = IF stage = "finally" THEN "returned" ELSE "propagated"
    /\ UNCHANGED <<pc, ok, df, db, cte, segment_stats, milestone_summary, last_report, files>>

RunNext ==
    \/ run_fetch_data
    \/ run_fetch_data_failed
    \/ run_no_data
    \/ run_plot
    \/ run_second_plot
    \/ run_plot_raises
    \/ run_report_done
    \/ run_banner
    \/ run_close

RunSpec == RunInit /\ [][RunNext]_vars

-----------------------------------------------------------------------------
(* Properties *)

(* the DataFrame of `report` is back from fetch_data *)
AtPlot(report) == pc = report /\ stage = "plot" /\ ok

(* the rows of a, as a set *)

(* the number of rows of `rows` whose column Col has value x *)
CountEq(rows, col, x) == Cardinality({j \in 1..Len(rows) : rows[j][col] = x})

(* Q5: the rows the window of revenue_rank ranks are the groups read, and *)
(* they are in descending order of total_revenue                          *)
RevenueWindowOrdered ==
    /\ Len(cte) = Len(db)
    /\ {[driver_name |-> r.driver_name, total_revenue |-> r.total_revenue] : r \in Range(cte)}
         = Range(db)
    /\ \A i \in 1..Len(cte), j \in 1..Len(cte) :
         DescBefore(cte[i].total_revenue, cte[j].total_revenue) => i < j

(* C1: along the order of the window, RANK is non-decreasing, rows with   *)
(* equal order keys have the same rank, the rank of a row is 1 + the       *)
(* number of rows ordered strictly before its tie-group, and the first row *)
(* after a tie-group of g rows has the rank of that group plus g.          *)
C1_CompetitionRank ==
    AtPlot(5) =>
      /\ RevenueWindowOrdered
      /\ \A i \in 1..Len(cte) :
           /\ i > 1 => cte[i - 1].revenue_rank <= cte[i].revenue_rank
           /\ \A j \in 1..Len(cte) :
                cte[i].total_revenue = cte[j].total_revenue
                  => cte[i].revenue_rank = cte[j].revenue_rank
           /\ cte[i].revenue_rank =
                1 + Cardinality({j \in 1..Len(db) :
                       DescBefore(db[j].total_revenue, cte[i].total_revenue)})
           /\ (i > 1 /\ cte[i].total_revenue # cte[i - 1].total_revenue)
                => cte[i].revenue_rank = cte[i - 1].revenue_rank
                     + CountEq(db, "total_revenue", cte[i - 1].total_revenue)
      /\ \A i \in 1..Len(df) : i > 1 => df[i - 1].revenue_rank <= df[i].revenue_rank

(* C1 witness: two rows tied at rank 1, the next row at rank 3 *)
C1_Witness ==
    /\ AtPlot(5)
    /\ Len(cte) = 3
    /\ cte[1].total_revenue = cte[2].total_revenue
    /\ cte[2].total_revenue # cte[3].total_revenue
    /\ cte[1].revenue_rank = 1 /\ cte[2].revenue_rank = 1 /\ cte[3].revenue_rank = 3

(* the partition {r1: 10, r2: 10, r3: 30} as the groups of Q5 and of Q6 *)
ScenarioRevenue ==
    /\ AtPlot(5)
    /\ Column(db, "total_revenue") = <<10, 10, 30>>

ScenarioRating ==
    /\ AtPlot(6)
    /\ Column(db, "avg_rating") = <<10, 10, 30>>
    /\ \A i \in 1..Len(db) : db[i].rides_completed >= 10

(* C2 as stated: that partition, ordered descending, has the competition  *)
(* ranks [1,1,3] and the dense ranks [1,1,2].                              *)
C2_AsStated ==
    /\ ScenarioRevenue => Column(cte, "revenue_rank") = <<1, 1, 3>>
    /\ ScenarioRating => Column(cte, "quality_tier") = <<1, 1, 2>>

(* C2 amended: ordered descending, r3 (30) comes first and r1, r2 (10)     *)
(* follow as peers: both the competition ranks and the dense ranks along   *)
(* the order are [1,2,2].                                                  *)
C2_ScenarioRanks ==
    /\ ScenarioRevenue =>
         /\ Column(cte, "total_revenue") = <<30, 10, 10>>
         /\ Column(cte, "revenue_rank") = <<1, 2, 2>>
    /\ ScenarioRating =>
         /\ Column(cte, "avg_rating") = <<30, 10, 10>>
         /\ Column(cte, "quality_tier") = <<1, 2, 2>>

(* C2 witness: the dense ranks of the scenario have been computed *)
C2_Witness ==
    /\ ScenarioRating
    /\ Len(cte) = 3
    /\ cte[1].driver_name = 3

(* Q7: the rows the window of PERCENT_RANK ranks are the groups read, in  *)
(* descending order of total_revenue                                      *)
CommissionWindowOrdered ==
    /\ Len(cte) = Len(db)
    /\ {[driver_name |-> r.driver_name, total_revenue |-> r.total_revenue] : r \in Range(cte)}
         = Range(db)
    /\ \A i \in 1..Len(cte), j \in 1..Len(cte) :
         DescBefore(cte[i].total_revenue, cte[j].total_revenue) => i < j

(* the fraction f is the number x *)
FractionIs(f, x) == f.num = x * f.den

(* percent rank = (competition rank - 1) / (partition size - 1), in [0,1] *)
PercentRankDefined ==
    \A i \in 1..Len(cte) :
      /\ cte[i].percent_rank.den = Len(cte) - 1
      /\ cte[i].percent_rank.num =
           Cardinality({j \in 1..Len(db) :
              DescBefore(db[j].total_revenue, cte[i].total_revenue)})
      /\ 0 <= cte[i].percent_rank.num /\ cte[i].percent_rank.num <= cte[i].percent_rank.den
      /\ cte[i].revenue_percentile \in 0..1000

(* C3 as stated: in every partition of more than one row the first row    *)
(* has percent rank 0.0 and the last row has percent rank 1.0, ties or not *)
C3_AsStated ==
    (AtPlot(7) /\ Len(cte) > 1) =>
      /\ FractionIs(cte[1].percent_rank, 0) /\ cte[1].revenue_percentile = 0
      /\ FractionIs(cte[Len(cte)].percent_rank, 1)
      /\ cte[Len(cte)].revenue_percentile = 1000

(* C3 amended: in every partition of more than one row the first row has  *)
(* percent rank 0.0, every value is (rank - 1) / (size - 1) and lies in    *)
(* [0, 1], and the last row has percent rank (size - g) / (size - 1),      *)
(* where g is the size of the last tie-group: 1.0 exactly when the last    *)
(* row is tied with no other row.                                          *)
C3_PercentRank ==
    (AtPlot(7) /\ Len(cte) > 1) =>
      LET n == Len(cte)
          g == CountEq(db, "total_revenue", cte[n].total_revenue)
      IN  /\ CommissionWindowOrdered
          /\ PercentRankDefined
          /\ FractionIs(cte[1].percent_rank, 0) /\ cte[1].revenue_percentile = 0
          /\ cte[n].percent_rank = [num |-> n - g, den |-> n - 1]
          /\ FractionIs(cte[n].percent_rank, 1) <=> g = 1
          /\ g = 1 => cte[n].revenue_percentile = 1000

(* C3 witness: a partition whose last row is alone in its tie-group, and  *)
(* has percent rank 1.0, after a tie at the top                            *)
C3_Witness ==
    /\ AtPlot(7)
    /\ Len(cte) = 3
    /\ cte[1].total_revenue = cte[2].total_revenue
    /\ cte[2].total_revenue # cte[3].total_revenue
    /\ cte[1].revenue_percentile = 0
    /\ cte[3].revenue_percentile = 1000

(* the number of rows of the NTILE(nb) of a partition of n rows that fall *)
(* in bucket b                                                            *)
BucketSize(nb, n, b) == Cardinality({i \in 1..n : NTILE(nb, n, i) = b})

(* C4: NTILE of a partition of S rows into N buckets gives bucket b        *)
(* floor(S/N)+1 rows when b <= S mod N and floor(S/N) rows otherwise; any  *)
(* two sizes differ by at most 1, bucket 1 is not smaller than bucket N,   *)
(* the sizes add up to S, every row gets a bucket in 1..N, and 7 rows in 4 *)
(* buckets give the sizes [2,2,2,1].  Checked on the quartiles of Q9 and,  *)
(* for the size of its partition, on every bucket count up to MaxBuckets.  *)
C4_QuantileBuckets ==
    AtPlot(9) =>
      LET S == Len(cte)
          quartileSize(b) == CountEq(cte, "customer_value_quartile", b)
      IN  /\ S = Len(db)
          /\ \A i \in 1..S : cte[i].customer_value_quartile \in 1..4
          /\ \A b \in 1..4 :
               quartileSize(b) = (S \div 4) + (IF b <= S % 4 THEN 1 ELSE 0)
          /\ S = 7 => [b \in 1..4 |-> quartileSize(b)] = <<2, 2, 2, 1>>
          /\ \A N \in 1..MaxBuckets :
               /\ \A i \in 1..S : NTILE(N, S, i) \in 1..N
               /\ \A b \in 1..N :
                    BucketSize(N, S, b) = (S \div N) + (IF b <= S % N THEN 1 ELSE 0)
               /\ \A b \in 1..N, c \in 1..N :
                    BucketSize(N, S, b) - BucketSize(N, S, c) \in {-1, 0, 1}
               /\ BucketSize(N, S, 1) >= BucketSize(N, S, N)
               /\ SumSeq([b \in 1..N |-> BucketSize(N, S, b)]) = S

(* C4 witness: 7 customers in quartiles of sizes 2, 2, 2 and 1 *)
C4_Witness ==
    /\ AtPlot(9)
    /\ Len(cte) = 7
    /\ Column(cte, "customer_value_quartile") = <<1, 1, 2, 2, 3, 3, 4>>

(* C5: a CASE gives the label of its first arm whose condition is true and *)
(* the ELSE label when none is.  In Q7 the two arms overlap (a percentile  *)
(* <= 0.20 is also <= 0.50): a driver with revenue_percentile <= 0.20 is   *)
(* labelled Top 20%, never Top 50%; with the arms in the other order       *)
(* ([<= 0.5 -> A, <= 0.2 -> B]) the same row is labelled A.                *)
C5_FirstMatchWins ==
    AtPlot(7) =>
      \A i \in 1..Len(df) :
        LET p == df[i].revenue_percentile
        IN  /\ p <= 200 => df[i].commission_tier = "Top 20% - +15% Commission"
            /\ (200 < p /\ p <= 500) => df[i].commission_tier = "Top 50% - +10% Commission"
            /\ p > 500 => df[i].commission_tier = "Growth Pool - +5% Commission"
            /\ p <= 200 =>
                 CASE_WHEN(<<[when |-> SqlLe(p, 500), then |-> "A"],
                             [when |-> SqlLe(p, 200), then |-> "B"]>>, "C") = "A"

(* C5 witness: a driver within the top 20% and one between 20% and 50% *)
C5_Witness ==
    /\ AtPlot(7)
    /\ \E i \in 1..Len(df), j \in 1..Len(df) :
         /\ df[i].revenue_percentile <= 200
         /\ df[i].commission_tier = "Top 20% - +15% Commission"
         /\ df[j].revenue_percentile = 500
         /\ df[j].commission_tier = "Top 50% - +10% Commission"

(* Q6: the rows the window of DENSE_RANK ranks are the groups HAVING      *)
(* keeps, in descending order of avg_rating                               *)
QualityWindowOrdered ==
    /\ {[driver_name |-> r.driver_name, rides_completed |-> r.rides_completed,
         avg_rating |-> r.avg_rating] : r \in Range(cte)}
         = {r \in Range(db) : r.rides_completed >= 10}
    /\ Len(cte) = Cardinality({r \in Range(db) : r.rides_completed >= 10})
    /\ \A i \in 1..Len(cte), j \in 1..Len(cte) :
         DescBefore(cte[i].avg_rating, cte[j].avg_rating) => i < j

(* C6: along the order of the window, DENSE_RANK starts at 1 and is       *)
(* non-decreasing, rows with equal order keys have the same rank, the      *)
(* first row after a tie-group has the rank of that group plus 1 whatever  *)
(* the size of the group, and the ranks used are exactly 1..(number of     *)
(* distinct order-key values).                                             *)
C6_DenseRank ==
    AtPlot(6) =>
      /\ QualityWindowOrdered
      /\ Len(cte) > 0 => cte[1].quality_tier = 1
      /\ \A i \in 1..Len(cte) :
           /\ i > 1 => cte[i - 1].quality_tier <= cte[i].quality_tier
           /\ \A j \in 1..Len(cte) :
                cte[i].avg_rating = cte[j].avg_rating
                  => cte[i].quality_tier = cte[j].quality_tier
           /\ (i > 1 /\ cte[i].avg_rating # cte[i - 1].avg_rating)
                => cte[i].quality_tier = cte[i - 1].quality_tier + 1
      /\ {r.quality_tier : r \in Range(cte)}
           = 1..Cardinality({r.avg_rating : r \in
                               {x \in Range(db) : x.rides_completed >= 10}})
      /\ \A i \in 1..Len(df) : i > 1 => df[i - 1].quality_tier <= df[i].quality_tier

(* C6 witness: a tie-group of two rows at rank 1 followed by rank 2 *)
C6_Witness ==
    /\ AtPlot(6)
    /\ Len(cte) = 3
    /\ cte[1].avg_rating = cte[2].avg_rating
    /\ cte[1].quality_tier = 1 /\ cte[2].quality_tier = 1 /\ cte[3].quality_tier = 2

(* the positions of the rows of driver d in the windowed rows *)
RowsOfDriver(d) == {g \in 1..Len(cte) : cte[g].driver_key = d}

(* the rows of one driver are adjacent (one partition) *)
PartitionsAdjacent ==
    \A g \in 1..Len(cte), h \in 1..Len(cte) :
      (g < h /\ cte[g].driver_key = cte[h].driver_key)
        => \A m \in g..h : cte[m].driver_key = cte[g].driver_key

(* row g is the first / the last row of its partition *)
FirstOfPartition(g) == g = 1 \/ cte[g - 1].driver_key # cte[g].driver_key

LastOfPartition(g) == g = Len(cte) \/ cte[g + 1].driver_key # cte[g].driver_key

(* C7: the ROW_NUMBER values read along the order of a partition are       *)
(* exactly 1, 2, .., partition size: increasing by 1, no duplicates, no    *)
(* gaps, also when order keys tie (Q4: one partition; Q11: one partition   *)
(* per driver).                                                            *)
C7_SequentialRank ==
    /\ AtPlot(4) =>
         /\ Len(cte) = Len(db)
         /\ \A i \in 1..Len(cte), j \in 1..Len(cte) :
              AscBefore(cte[i].overall_avg_wait_time_minutes,
                        cte[j].overall_avg_wait_time_minutes) => i < j
         /\ Column(cte, "efficiency_rank") = [i \in 1..Len(db) |-> i]
         /\ Column(df, "efficiency_rank") = [i \in 1..Len(df) |-> i]
    /\ AtPlot(11) =>
         /\ Len(cte) = Len(db)
         /\ PartitionsAdjacent
         /\ \A g \in 1..Len(cte) :
              /\ FirstOfPartition(g) => cte[g].ride_number = 1
              /\ ~FirstOfPartition(g) => cte[g].ride_number = cte[g - 1].ride_number + 1
              /\ LastOfPartition(g) =>
                   cte[g].ride_number =
                     CountEq(db, "driver_key", cte[g].driver_key)

(* C7 witness: three drivers with the same wait time numbered 1, 2, 3 *)
C7_Witness ==
    /\ AtPlot(4)
    /\ Len(cte) = 3
    /\ cte[1].overall_avg_wait_time_minutes = cte[3].overall_avg_wait_time_minutes
    /\ cte[3].efficiency_rank = 3

ChurnDrivers == {r \in Range(db) : r.driver_key \in {1, 5, 10, 15, 20}}

(* C9: in every partition (the rides of one driver, ordered by start_time) *)
(* the LEAD of the last row is NULL and the LEAD of every other row is the *)
(* start_time of its immediate successor in the same partition; a LEAD     *)
(* value never comes from a row of another driver.                         *)
C9_Lead ==
    AtPlot(10) =>
      /\ {[ride_id |-> r.ride_id, driver_key |-> r.driver_key,
           start_time |-> r.current_ride_start,
           end_time |-> r.current_ride_end] : r \in Range(cte)} = ChurnDrivers
      /\ Len(cte) = Cardinality(ChurnDrivers)
      /\ PartitionsAdjacent
      /\ \A g \in 1..Len(cte), h \in 1..Len(cte) :
           (cte[g].driver_key = cte[h].driver_key
              /\ AscBefore(cte[g].current_ride_start, cte[h].current_ride_start)) => g < h
      /\ \A g \in 1..Len(cte) :
           /\ LastOfPartition(g) => cte[g].next_ride_start = NULL
           /\ ~LastOfPartition(g) =>
                cte[g].next_ride_start = cte[g + 1].current_ride_start
      /\ \A i \in 1..Len(df) :
           \E r \in ChurnDrivers :
             /\ r.driver_key = df[i].driver_key
             /\ r.ride_id # df[i].ride_id
             /\ r.start_time = df[i].next_ride_start

(* C9 witness: the last ride of driver 1 is followed in the windowed rows  *)
(* by a ride of driver 5 with a start time, and its LEAD is NULL; the ride *)
(* before it has its start time as LEAD                                    *)
C9_Witness ==
    /\ AtPlot(10)
    /\ Len(cte) = 3
    /\ cte[1].driver_key = 1 /\ cte[2].driver_key = 1 /\ cte[3].driver_key = 5
    /\ cte[3].current_ride_start # NULL
    /\ cte[2].current_ride_start # NULL
    /\ cte[1].next_ride_start = cte[2].current_ride_start
    /\ cte[2].next_ride_start = NULL

(* C10: under the whole-partition frame FIRST_VALUE (Q11) is the same for  *)
(* all rows of a partition and is the fare of the first row of the ordered *)
(* partition; LAST_VALUE (Q12) is the same for all rows of a partition and *)
(* is the rating of the last row of the ordered partition, not a running   *)
(* value.                                                                  *)
C10_FirstLastValue ==
    /\ AtPlot(11) =>
         /\ Len(cte) = Len(db)
         /\ PartitionsAdjacent
         /\ \A g \in 1..Len(cte), h \in 1..Len(cte) :
              (cte[g].driver_key = cte[h].driver_key
                 /\ AscBefore(cte[g].current_ride_start, cte[h].current_ride_start))
                => g < h
         /\ \A g \in 1..Len(cte) :
              /\ FirstOfPartition(g) => cte[g].first_ever_fare = cte[g].current_fare
              /\ ~FirstOfPartition(g) => cte[g].first_ever_fare = cte[g - 1].first_ever_fare
    /\ AtPlot(12) =>
         /\ Len(cte) = Cardinality({i \in 1..Len(db) :
                                     db[i].average_driver_rating # NULL})
         /\ PartitionsAdjacent
         /\ \A g \in 1..Len(cte), h \in 1..Len(cte) :
              (cte[g].driver_key = cte[h].driver_key
                 /\ AscBefore(cte[g].start_time, cte[h].start_time)) => g < h
         /\ \A g \in 1..Len(cte) :
              /\ LastOfPartition(g) =>
                   cte[g].most_recent_rating = 100 * cte[g].average_driver_rating
              /\ ~LastOfPartition(g) =>
                   cte[g].most_recent_rating = cte[g + 1].most_recent_rating

(* C10 witness: a driver whose earlier ride is rated differently from the  *)
(* last one; the earlier row carries the rating of the last row            *)
C10_Witness ==
    /\ AtPlot(12)
    /\ \E g \in 1..Len(cte) :
         /\ ~LastOfPartition(g)
         /\ LastOfPartition(g + 1)
         /\ cte[g].average_driver_rating # cte[g + 1].average_driver_rating
         /\ cte[g].most_recent_rating = 100 * cte[g + 1].average_driver_rating

-----------------------------------------------------------------------------
(* NTH_VALUE (Q13) *)

(* the row of fact_rides with the given ride_id *)
DbRide(ride_id) == CHOOSE r \in Range(db) : r.ride_id = ride_id

(* the index in cte of the first row of the partition of row g *)
PartitionFirst(g) ==
    CHOOSE h \in 1..g : /\ FirstOfPartition(h)
                        /\ \A m \in h..g : cte[m].driver_key = cte[g].driver_key

(* the NTH_VALUE columns of Q13 and their indexes *)
MilestoneColumns ==
    {[k |-> 1, col |-> "ride_1_fare"], [k |-> 10, col |-> "ride_10_fare"],
     [k |-> 50, col |-> "ride_50_fare"], [k |-> 100, col |-> "ride_100_fare"]}

(* C11: in every partition (the rides of one driver ordered by start_time) *)
(* and for each index k the query asks for (1, 10, 50, 100), the k-th-ride *)
(* column of every row of the partition is NULL when the partition has     *)
(* fewer than k rows, and otherwise the fare_amount of the k-th row of the *)
(* ordered partition.                                                      *)
C11_NthValue ==
    AtPlot(13) =>
      /\ Len(cte) = Len(db)
      /\ {[ride_id |-> r.ride_id, driver_key |-> r.driver_key] : r \in Range(cte)}
           = {[ride_id |-> r.ride_id, driver_key |-> r.driver_key] : r \in Range(db)}
      /\ PartitionsAdjacent
      /\ \A g \in 1..Len(cte), h \in 1..Len(cte) :
           (cte[g].driver_key = cte[h].driver_key
              /\ AscBefore(DbRide(cte[g].ride_id).start_time,
                           DbRide(cte[h].ride_id).start_time)) => g < h
      /\ \A g \in 1..Len(cte) : \A m \in MilestoneColumns :
           LET size == Cardinality(RowsOfDriver(cte[g].driver_key))
           IN  cte[g][m.col] =
                 IF m.k > size THEN NULL
                 ELSE DbRide(cte[PartitionFirst(g) + m.k - 1].ride_id).fare_amount

(* C11 witness: a driver with at least 10 and fewer than 50 rides; a row   *)
(* that is neither the first nor the tenth of the partition carries the    *)
(* fare of the tenth ride, which differs from the fare of the first, and   *)
(* NULL for the fiftieth.                                                  *)
C11_Witness ==
    /\ AtPlot(13)
    /\ \E g \in 1..Len(cte) :
         /\ Cardinality(RowsOfDriver(cte[g].driver_key)) >= 10
         /\ g \notin {PartitionFirst(g), PartitionFirst(g) + 9}
         /\ cte[g].ride_10_fare = DbRide(cte[PartitionFirst(g) + 9].ride_id).fare_amount
         /\ cte[g].ride_10_fare # cte[g].ride_1_fare
         /\ cte[g].ride_10_fare # NULL
         /\ cte[g].ride_50_fare = NULL

-----------------------------------------------------------------------------
(* Partitions of one row *)

(* row g of cte is the only row of its partition (PARTITION BY driver_key) *)
AloneInPartition(g) == FirstOfPartition(g) /\ LastOfPartition(g)

(* C12: in a partition of one row, ROW_NUMBER, RANK and DENSE_RANK are 1,  *)
(* PERCENT_RANK is 0 (no division by zero), CUME_DIST is 1, LEAD is NULL,   *)
(* FIRST_VALUE, LAST_VALUE and NTH_VALUE(.., 1) are the row's own value and *)
(* NTH_VALUE(.., k) is NULL for the other indexes k = 10, 50, 100.          *)
C12_SingleRowPartition ==
    /\ (AtPlot(4) /\ Len(cte) = 1) => cte[1].efficiency_rank = 1
    /\ (AtPlot(5) /\ Len(cte) = 1) => cte[1].revenue_rank = 1
    /\ (AtPlot(6) /\ Len(cte) = 1) => cte[1].quality_tier = 1
    /\ (AtPlot(7) /\ Len(cte) = 1) =>
          /\ cte[1].percent_rank.den # 0
          /\ FractionIs(cte[1].percent_rank, 0)
          /\ cte[1].revenue_percentile = 0
    /\ (AtPlot(8) /\ Len(cte) = 1) =>
          /\ FractionIs(cte[1].cume_dist, 1)
          /\ cte[1].efficiency_cume_dist = 1000
    /\ AtPlot(10) =>
          \A g \in 1..Len(cte) : AloneInPartition(g) => cte[g].next_ride_start = NULL
    /\ AtPlot(11) =>
          \A g \in 1..Len(cte) : AloneInPartition(g) =>
             /\ cte[g].ride_number = 1
             /\ cte[g].first_ever_fare = cte[g].current_fare
    /\ AtPlot(12) =>
          \A g \in 1..Len(cte) : AloneInPartition(g) =>
             cte[g].most_recent_rating = 100 * cte[g].average_driver_rating
    /\ AtPlot(13) =>
          \A g \in 1..Len(cte) : AloneInPartition(g) =>
             /\ cte[g].ride_1_fare = DbRide(cte[g].ride_id).fare_amount
             /\ cte[g].ride_10_fare = NULL
             /\ cte[g].ride_50_fare = NULL
             /\ cte[g].ride_100_fare = NULL

(* C12 witness: the revenue table holds one driver; the row has percentile *)
(* rank 0                                                                  *)
C12_Witness ==
    /\ AtPlot(7)
    /\ Len(db) = 1 /\ Len(cte) = 1
    /\ cte[1].total_revenue # NULL
    /\ cte[1].percent_rank = [num |-> 0, den |-> 1]

-----------------------------------------------------------------------------
(* The revenue tiers (Q5) *)

(* the label the tier rules give a rank, read off the thresholds *)
TierOfRank(rank) ==
    IF rank <= 10 THEN "Top Tier (Rank <=10)"
    ELSE IF rank <= 30 THEN "Mid Tier (Rank 11-30)"
    ELSE "Growth Tier (Rank >30)"

(* C13: every row Q5 returns is labelled Top exactly when its rank is at   *)
(* most 10, Mid exactly when its rank is 11..30 and Growth exactly when    *)
(* its rank is above 30; the same holds of the CASE applied to every rank  *)
(* the window produces, the ranks above 30 that LIMIT 30 cuts off included. *)
C13_TierThresholds ==
    AtPlot(5) =>
      /\ \A r \in Range(df) :
           /\ r.performance_tier = "Top Tier (Rank <=10)" <=> r.revenue_rank <= 10
           /\ r.performance_tier = "Mid Tier (Rank 11-30)"
                <=> (11 <= r.revenue_rank /\ r.revenue_rank <= 30)
           /\ r.performance_tier = "Growth Tier (Rank >30)" <=> r.revenue_rank > 30
      /\ \A r \in Range(cte) : performance_tier(r.revenue_rank) = TierOfRank(r.revenue_rank)

(* C13 witness: the returned rows hold rank 10 labelled Top and rank 11    *)
(* labelled Mid, and the window ranked a driver 31st                       *)
C13_Witness ==
    /\ AtPlot(5)
    /\ \E r \in Range(df) :
         r.revenue_rank = 10 /\ r.performance_tier = "Top Tier (Rank <=10)"
    /\ \E r \in Range(df) :
         r.revenue_rank = 11 /\ r.performance_tier = "Mid Tier (Rank 11-30)"
    /\ \E r \in Range(cte) : r.revenue_rank = 31

-----------------------------------------------------------------------------
(* Order of peers (Q4) *)

(* the scan position in db of the driver named name *)
InputPosition(name) == CHOOSE p \in 1..Len(db) : db[p].driver_name = name

(* C14, as stated: the window order of Q4 is stable and deterministic.     *)
(* Drivers with equal overall_avg_wait_time_minutes appear in the window   *)
(* order in their input order, and every evaluation of the query on the    *)
(* same input returns the same rows with the same efficiency_rank.  The    *)
(* ORDER BY of the window names no tie-break, so this is violated.         *)
C14_AsStated ==
    AtPlot(4) =>
      /\ \A i \in 1..Len(cte), j \in 1..Len(cte) :
           (i < j /\ cte[i].overall_avg_wait_time_minutes
                       = cte[j].overall_avg_wait_time_minutes)
             => InputPosition(cte[i].driver_name) < InputPosition(cte[j].driver_name)
      /\ \A tie \in TiePolicies, tie2 \in TiePolicies :
           get_driver_leaderboard(db, tie, tie2).df = df

-----------------------------------------------------------------------------
(* Placement of NULL order keys *)

(* in cte, every row whose column col is NULL comes after every row whose  *)
(* column col is not NULL                                                  *)
NullsLast(col) ==
    \A i \in 1..Len(cte), j \in 1..Len(cte) :
      (cte[i][col] = NULL /\ cte[j][col] # NULL) => j < i

(* C15, as stated: rows with a NULL order key come after all rows with a   *)
(* non-NULL key, under ORDER BY .. ASC (Q4) and under ORDER BY .. DESC     *)
(* (Q5, Q9), and a NULL total never gets rank 1 ahead of a non-NULL total. *)
(* It holds of the ascending window and is violated by the descending      *)
(* ones, where NULL comes first.                                           *)
C15_AsStated ==
    /\ AtPlot(4) => NullsLast("overall_avg_wait_time_minutes")
    /\ AtPlot(5) =>
         /\ NullsLast("total_revenue")
         /\ \A i \in 1..Len(cte) :
              (cte[i].total_revenue = NULL
                 /\ \E j \in 1..Len(cte) : cte[j].total_revenue # NULL)
                => cte[i].revenue_rank # 1
    /\ AtPlot(9) => NullsLast("total_fare_spent")

-----------------------------------------------------------------------------
(* Contiguity of the quartiles (Q9) *)

(* fare a is at least fare b, a NULL fare counting as below every fare *)
FareAtLeast(a, b) == b = NULL \/ (a # NULL /\ a >= b)

(* C16, as stated: along the window order of Q9 the quartile number starts *)
(* at 1 and never decreases, and every customer of a lower-numbered        *)
(* quartile has a total_fare_spent at least that of every customer of a    *)
(* higher-numbered quartile.  The first part holds; the second is violated *)
(* when a customer's total is NULL, since the descending order puts that   *)
(* customer first.                                                         *)
C16_AsStated ==
    AtPlot(9) =>
      /\ Len(cte) > 0 => cte[1].customer_value_quartile = 1
      /\ \A i \in 1..Len(cte), j \in 1..Len(cte) :
           i < j => cte[i].customer_value_quartile <= cte[j].customer_value_quartile
      /\ \A r \in Range(df), s \in Range(df) :
           r.customer_value_quartile < s.customer_value_quartile
             => FareAtLeast(r.total_fare_spent, s.total_fare_spent)

(* C16 without the customers whose total is NULL: the statement holds of   *)
(* every table in which all totals are known                               *)
C16_KnownTotals ==
    (AtPlot(9) /\ \A r \in Range(db) : r.total_fare_spent # NULL) => C16_AsStated

-----------------------------------------------------------------------------
(* The aggregation of plot_customer_value_segments (report 9) *)

(* the plot methods of `report` have returned *)
AtDone(report) == pc = report /\ stage = "done"

(* the rows of df labelled l, in the order of df *)
Members(l) == SelectSeq(df, LAMBDA r : r.segment_name = l)

(* the known (non-NULL) totals of the rows of df labelled l *)
KnownFares(l) == SelectSeq(Column(Members(l), "total_fare_spent"), LAMBDA x : x # NULL)

(* one summary per label that occurs in df; its customer_count is the      *)
(* number of rows with the label; the counts add up to the rows of df      *)
OneSummaryPerLabel ==
    /\ {s.segment_name : s \in Range(segment_stats)} = {r.segment_name : r \in Range(df)}
    /\ Len(segment_stats) = Cardinality({r.segment_name : r \in Range(df)})
    /\ \A s \in Range(segment_stats) : s.customer_count = Len(Members(s.segment_name))
    /\ SumSeq(Column(segment_stats, "customer_count")) = Len(df)

(* the summary s has a minimum, a mean and a maximum, min <= mean <= max,  *)
(* and the minimum and the maximum are totals of members of the group      *)
MinMeanMax(s) ==
    /\ s.min_fare # NULL /\ s.max_fare # NULL /\ s.avg_fare # NaN
    /\ s.min_fare * s.avg_fare.den <= s.avg_fare.num
    /\ s.avg_fare.num <= s.max_fare * s.avg_fare.den
    /\ s.min_fare \in Range(KnownFares(s.segment_name))
    /\ s.max_fare \in Range(KnownFares(s.segment_name))

(* C17, as stated: one summary per label, counts as above, the sum is the  *)
(* sum of the totals of the members, and in every summary min <= mean <=   *)
(* max with min and max attained by members.  Violated by a segment none   *)
(* of whose customers has a known total: its min, mean and max are NaN.    *)
C17_AsStated ==
    AtDone(9) =>
      /\ OneSummaryPerLabel
      /\ \A s \in Range(segment_stats) :
           /\ s.total_fare = SumSeq(KnownFares(s.segment_name))
           /\ MinMeanMax(s)

(* C17, amended: as stated for every segment with at least one customer    *)
(* whose total is known, the sum, min, mean and max being taken over the    *)
(* known totals (the mean is their sum over their number); a segment with   *)
(* no known total has sum 0 and no min, mean or max.                        *)
C17_GroupSummaries ==
    AtDone(9) =>
      /\ OneSummaryPerLabel
      /\ \A s \in Range(segment_stats) :
           /\ s.total_fare = SumSeq(KnownFares(s.segment_name))
           /\ KnownFares(s.segment_name) # <<>> =>
                /\ MinMeanMax(s)
                /\ s.avg_fare = [num |-> s.total_fare,
                                 den |-> Len(KnownFares(s.segment_name))]
           /\ KnownFares(s.segment_name) = <<>> =>
                /\ s.total_fare = 0
                /\ s.min_fare = NULL /\ s.max_fare = NULL /\ s.avg_fare = NaN

(* C17 witness: two segments are summarised, one of them with several      *)
(* customers whose totals differ, so that min < mean < max                 *)
C17_Witness ==
    /\ AtDone(9)
    /\ Len(segment_stats) >= 2
    /\ \E s \in Range(segment_stats) :
         /\ s.customer_count >= 2
         /\ s.avg_fare # NaN
         /\ s.min_fare * s.avg_fare.den < s.avg_fare.num
         /\ s.avg_fare.num < s.max_fare * s.avg_fare.den

(* C18: the example list of every segment summary holds the masked_name of *)
(* the first min(3, customer_count) rows of the segment, in the order in   *)
(* which the rows of the segment occur in df: the i-th example is the name *)
(* of the row of the segment that has i - 1 rows of the segment before it. *)
(* So the list is not re-sorted and has no duplicate and no customer of    *)
(* another segment.                                                        *)
C18_FirstThreeExamples ==
    AtDone(9) =>
      \A s \in Range(segment_stats) :
        /\ Len(s.top_customers) = IF s.customer_count < 3 THEN s.customer_count ELSE 3
        /\ \A i \in 1..Len(s.top_customers) :
             \E p \in 1..Len(df) :
               /\ df[p].segment_name = s.segment_name
               /\ df[p].masked_name = s.top_customers[i]
               /\ Cardinality({q \in 1..(p - 1) : df[q].segment_name = s.segment_name})
                    = i - 1

(* C18 witness: a segment that is not the first of df has four customers;  *)
(* its list holds three of them, and not in the order of their names       *)
C18_Witness ==
    /\ AtDone(9)
    /\ \E s \in Range(segment_stats) :
         /\ s.customer_count > 3
         /\ Len(s.top_customers) = 3
         /\ s.segment_name # df[1].segment_name
         /\ s.top_customers[1] > s.top_customers[2]

-----------------------------------------------------------------------------
(* Independence of the partitions (Q10) *)

(* the rows of fact_rides of driver d, in scan order *)
RidesOf(d) == SelectSeq(db, LAMBDA r : r.driver_key = d)

(* the scan position of the first ride of driver d *)
FirstAppearance(d) ==
    CHOOSE p \in 1..Len(db) : db[p].driver_key = d /\ \A q \in 1..(p - 1) : db[q].driver_key # d

(* Each row's LEAD depends on the rides of its own driver only: running    *)
(* the query on the rides of one driver alone gives the rows that the      *)
(* query on the whole table gives for that driver, and the returned table  *)
(* is made of those rows.                                                  *)
PartitionsIndependent ==
    \E tie \in TiePolicies, tie2 \in TiePolicies :
      /\ \A d \in {r.driver_key : r \in Range(db)} :
           get_churn_risk_matrix(RidesOf(d), tie, tie2).cte
             = SelectSeq(cte, LAMBDA r : r.driver_key = d)
      /\ \A r \in Range(df) :
           r \in Range(get_churn_risk_matrix(RidesOf(r.driver_key), tie, tie2).cte)

-----------------------------------------------------------------------------
(* The DataFrame under the plot methods *)

(* C20, as stated: no plot step changes the DataFrame it is passed.  From  *)
(* the moment get_... returned it until the plots of the report are done,  *)
(* df keeps its columns and values.  Violated by plot_vip_spending_pie,    *)
(* which assigns the column hover_text to the DataFrame of report 3 after  *)
(* plot_vip_customers has read it.                                         *)
C20_AsStated ==
    [][(stage \in {"plot", "pie"} /\ stage' \in {"pie", "done"}) => df' = df]_vars

-----------------------------------------------------------------------------
(* The sizes of the customer segments (report 9) *)

(* the customer_count segment_stats gives the segment of quartile b: 0     *)
(* when segment_stats has no row for it                                    *)
SegmentCount(b) ==
    LET hit == {s \in Range(segment_stats) : s.segment_name = segment_name(b)}
    IN  IF hit = {} THEN 0 ELSE (CHOOSE s \in hit : TRUE).customer_count

-----------------------------------------------------------------------------
(* The ranks that LIMIT 30 lets through (Q5) *)

(* C27: Q5 returns at most 30 rows, in the order of revenue_rank; the      *)
(* competition rank of the row at position i of the window order, and of   *)
(* the returned rows, is at most i; so every returned row has revenue_rank *)
(* at most 30 and none is labelled Growth Tier, however many drivers the   *)
(* window ranked.                                                          *)
C27_RankWithinLimit ==
    AtPlot(5) =>
      /\ Len(df) = IF Len(db) < 30 THEN Len(db) ELSE 30
      /\ \A g \in 1..Len(cte) : cte[g].revenue_rank <= g
      /\ \A i \in 1..Len(df) :
           /\ df[i].revenue_rank <= i
           /\ df[i].revenue_rank <= 30
           /\ df[i].performance_tier # "Growth Tier (Rank >30)"
           /\ i > 1 => df[i - 1].revenue_rank <= df[i].revenue_rank

(* C27 witness: the window ranked 31 drivers, the last at rank 31, which   *)
(* the CASE labels Growth Tier; 30 rows are returned, the last at rank 30  *)
C27_Witness ==
    /\ AtPlot(5)
    /\ Len(cte) = 31
    /\ cte[31].revenue_rank = 31
    /\ performance_tier(cte[31].revenue_rank) = "Growth Tier (Rank >30)"
    /\ Len(df) = 30
    /\ df[30].revenue_rank = 30

-----------------------------------------------------------------------------
(* The rows and labels of the churn risk matrix (Q10) *)

(* every ride Q10 reads has a start time and an end time *)
ChurnTimesKnown == \A r \in ChurnDrivers : r.start_time # NULL /\ r.end_time # NULL

(* the minutes between the end of the ride of row r and the start of the   *)
(* driver's next ride, from the rides in the database                      *)
IdleOf(r) == r.next_ride_start - DbRide(r.ride_id).end_time

(* C28: when every ride has a start and an end time, the filter            *)
(* next_ride_start IS NOT NULL drops exactly one ride of each driver, the  *)
(* last of the driver's partition (no ride of the driver starts later), so *)
(* a driver with n rides has n - 1 rows in the result (the model's tables  *)
(* stay below the LIMIT of 100 rows); the dropped rows are the rows the    *)
(* CASE would label 'Last ride (no next ride data)'; no returned row has   *)
(* that label or a NULL idle time; and a returned row is labelled CHURN    *)
(* RISK exactly when its idle time is above 4 hours, WARNING exactly when  *)
(* it is above 2 and at most 4 hours, and Normal exactly when it is at     *)
(* most 2 hours.                                                           *)
C28_ChurnRows ==
    (AtPlot(10) /\ ChurnTimesKnown) =>
      /\ \A d \in {r.driver_key : r \in ChurnDrivers} :
           /\ Cardinality({i \in 1..Len(df) : df[i].driver_key = d})
                = Cardinality(RowsOfDriver(d)) - 1
           /\ Cardinality(RowsOfDriver(d)) = CountEq(db, "driver_key", d)
      /\ \A g \in 1..Len(cte) :
           /\ cte[g] \notin Range(df) <=> LastOfPartition(g)
           /\ LastOfPartition(g) =>
                /\ \A r \in ChurnDrivers :
                     r.driver_key = cte[g].driver_key
                       => r.start_time <= cte[g].current_ride_start
                /\ cte[g].retention_risk_flag = "Last ride (no next ride data)"
                /\ cte[g].idle_hours_until_next_ride = NULL
      /\ \A r \in Range(df) :
           /\ r.idle_hours_until_next_ride # NULL
           /\ r.retention_risk_flag # "Last ride (no next ride data)"
           /\ r.retention_risk_flag = "CHURN RISK: >4hr idle" <=> IdleOf(r) > 240
           /\ r.retention_risk_flag = "WARNING: 2-4hr idle"
                <=> (120 < IdleOf(r) /\ IdleOf(r) <= 240)
           /\ r.retention_risk_flag = "Normal: <2hr idle" <=> IdleOf(r) <= 120

(* C28 witness: a driver with three rides has two rows in the result, one  *)
(* idle for exactly 4 hours and labelled WARNING, one idle for 4 hours and *)
(* a minute and labelled CHURN RISK; both show 4.0 idle hours              *)
C28_Witness ==
    /\ AtPlot(10)
    /\ ChurnTimesKnown
    /\ Len(cte) = 3
    /\ Len(df) = 2
    /\ IdleOf(df[1]) = 240 /\ df[1].retention_risk_flag = "WARNING: 2-4hr idle"
    /\ IdleOf(df[2]) = 241 /\ df[2].retention_risk_flag = "CHURN RISK: >4hr idle"
    /\ df[1].idle_hours_until_next_ride = 40
    /\ df[2].idle_hours_until_next_ride = 40

-----------------------------------------------------------------------------
(* The milestones of Q13 and the counts of plot_driver_milestones *)

(* every ride of fact_rides has a fare *)
FaresKnown == \A i \in 1..Len(db) : db[i].fare_amount # NULL

(* the DataFrame of report 13 has been fetched *)
MilestonesFetched == pc = 13 /\ stage \in {"plot", "done"} /\ ok

(* the number of rows of the DataFrame in the given lifecycle stage *)
StageCount(name) ==
    Cardinality({i \in 1..Len(df) : df[i].driver_lifecycle_stage = name})

(* C29: when every fare is known, in every row that get_driver_milestones  *)
(* returns ride_k_fare is non-null exactly when total_rides_to_date >= k    *)
(* (k = 1, 10, 50, 100); ride_1_fare and ride_10_fare are never null and    *)
(* the stage 'New (<10 rides)' never appears; the 'Drivers Reaching'        *)
(* counts of plot_driver_milestones do not increase from Ride #1 to         *)
(* Ride #100, and the Ride #100 count is the number of rows in the stage    *)
(* 'Active (100+ rides)'.                                                   *)
C29_Milestones ==
    /\ (MilestonesFetched /\ FaresKnown) =>
         \A i \in 1..Len(df) :
           /\ \A m \in MilestoneColumns :
                (df[i][m.col] # NULL) <=> (df[i].total_rides_to_date >= m.k)
           /\ df[i].ride_1_fare # NULL
           /\ df[i].ride_10_fare # NULL
           /\ df[i].driver_lifecycle_stage # "New (<10 rides)"
    /\ (AtDone(13) /\ FaresKnown) =>
         /\ Len(milestone_summary) = 4
         /\ \A j \in 1..3 : milestone_summary[j].Drivers_Reaching
                               >= milestone_summary[j + 1].Drivers_Reaching
         /\ milestone_summary[4].Milestone = "Ride #100"
         /\ milestone_summary[4].Drivers_Reaching = StageCount("Active (100+ rides)")

(* C29 witness: the counts are computed from a DataFrame with a driver of   *)
(* 100 rides and a driver of fewer than 50, so that the counts fall from    *)
(* two drivers at Ride #10 to one at Ride #50 and Ride #100.                *)
C29_Witness ==
    /\ AtDone(13)
    /\ FaresKnown
    /\ \E i \in 1..Len(df) : /\ df[i].total_rides_to_date = 100
                              /\ df[i].ride_100_fare # NULL
                              /\ df[i].driver_lifecycle_stage = "Active (100+ rides)"
    /\ \E i \in 1..Len(df) : /\ df[i].total_rides_to_date < 50
                              /\ df[i].ride_50_fare = NULL
    /\ milestone_summary[2].Drivers_Reaching = 2
    /\ milestone_summary[3].Drivers_Reaching = 1
    /\ milestone_summary[4].Drivers_Reaching = 1

-----------------------------------------------------------------------------
(* The rn = 1 filter of Q12 and Q13 *)

(* the drivers with a row in the windowed rows *)
CteDrivers == {cte[g].driver_key : g \in 1..Len(cte)}

(* the rows of driver d in the windowed rows that have rn = 1 *)
LatestRows(d) == {g \in RowsOfDriver(d) : cte[g].rn = 1}

(* several of the given rides of one driver are tied on the driver's       *)
(* latest start_time                                                       *)
LatestTie(rides) ==
    \E a \in rides, b \in rides :
      /\ a.ride_id # b.ride_id
      /\ a.driver_key = b.driver_key
      /\ a.start_time = b.start_time
      /\ \A c \in rides : c.driver_key = a.driver_key => c.start_time <= a.start_time

(* the rides of fact_rides that have a rating (the WHERE of Q12's CTE) *)
RatedRides == {r \in Range(db) : r.average_driver_rating # NULL}

(* the smaller of two numbers *)
Least(a, b) == IF a <= b THEN a ELSE b

-----------------------------------------------------------------------------
(* The run of generate_all_reports (RunSpec) *)

(* a query of this run raised in fetch_data, as the query of a report does *)
(* when a column it names is missing from the table it reads               *)
QueryFailed == "[FAILED] Query execution failed" \in printed

(* the success banner of generate_all_reports has been printed *)
BannerPrinted == "[OK] ALL REPORTS GENERATED SUCCESSFULLY!" \in printed

(* C21, as stated: a query that fails on a missing field fails the whole   *)
(* invocation.  Once a query of the run has failed, no report of the run   *)
(* produces output any more: no file is written and the success banner is  *)
(* not printed.  Violated: fetch_data catches the error and returns None,  *)
(* only the report of that query is skipped, and the later reports write   *)
(* their files.                                                            *)
C21_AsStated ==
    [][QueryFailed => (files' = files /\ ~BannerPrinted')]_vars

(* the files the plot methods of the reports 1..last write *)
AllFiles(last) == UNION {Range(ReportFiles(report)) : report \in 1..last}

(* C23, as stated: whenever a run of AnalyticsDashboard's                  *)
(* generate_all_reports has printed the banner "ALL 15 REPORTS GENERATED   *)
(* SUCCESSFULLY", the 15 files 01 .. 15 have been written during the run.  *)
(* Violated: a report whose query fails or returns no row is skipped, and  *)
(* the banner is printed all the same.                                     *)
C23_AsStated ==
    (BannerPrinted /\ last_report = LastReport) =>
      /\ AllFiles(last_report) = 1..15
      /\ files = 1..15

(* the positions in the log of the closes of the connection *)
Closes == {i \in 1..Len(log) : log[i].op = "close"}

(* generate_all_reports is over: it has returned, or an exception has gone *)
(* on to its caller                                                        *)
RunOver == stage \in {"returned", "propagated"}

(* C24: on every path through generate_all_reports the connection is       *)
(* closed exactly once, after the last query of the run; no query is sent  *)
(* after the close; and no exception goes on to the caller.  While the run *)
(* is under way the connection is open and has not been closed; when it is *)
(* over, generate_all_reports has returned normally, the connection is     *)
(* closed, and the one close is the last entry of the log, after all the   *)
(* queries.  The run cannot stop anywhere else: a state with no next step  *)
(* is a state in which it has returned.                                    *)
C24_ClosedOnce ==
    /\ stage # "finally, raising" /\ stage # "propagated"
    /\ ~RunOver => (conn = "open" /\ Closes = {})
    /\ RunOver => /\ conn = "closed"
                  /\ Closes = {Len(log)}
                  /\ \A i \in 1..(Len(log) - 1) : log[i].op = "query"
    /\ ~(ENABLED RunNext) => stage = "returned"

(* C24 witness: a run in which a query failed and, later, a plot method    *)
(* raised has returned with the connection closed after its last query     *)
C24_Witness ==
    /\ stage = "returned"
    /\ QueryFailed
    /\ "[FAILED] Error generating reports" \in printed
    /\ files # {}
    /\ Len(log) > 3
    /\ log[Len(log) - 1].op = "query"
    /\ log[Len(log)].op = "close"
    /\ conn = "closed"

(* the reports whose query has been sent, in the order of sending *)
Queried == Column(SelectSeq(log, LAMBDA e : e.op = "query"), "report")

(* the DataFrame of the report is back and is None or empty *)
NothingToPlot == stage = "plot" /\ ~(ok /\ df # <<>>)

(* C25: a report whose query failed (fetch_data returned None) or returned *)
(* no row is skipped and nothing else is: the step after such a query      *)
(* writes no file and is the step to the query of the next report; a file  *)
(* is only written for the report at hand, from a DataFrame that has rows, *)
(* so none of the files of a skipped report is written, then or later; and *)
(* the queries sent are those of the reports 1, 2, .., in that order, up   *)
(* to the report at hand, whatever the results of the earlier queries.     *)
C25_SkipOnlyThatReport ==
    [][/\ NothingToPlot =>
            (files' = files /\ pc' = pc + 1 /\ stage' = "query" /\ conn' = "open")
       /\ files' # files =>
            /\ ok /\ df # <<>>
            /\ (files' \ files) \subseteq Range(ReportFiles(pc))
            /\ files \subseteq files'
       /\ Queried' = [i \in 1..(IF stage' = "query" THEN pc' - 1
                                ELSE IF pc' > last_report THEN last_report
                                ELSE pc') |-> i]]_vars

(* C25 witness: the query of report 1 was skipped, a query failed, and the *)
(* run went on to query all 13 reports and to write the files of reports 2 *)
(* and 13                                                                  *)
C25_Witness ==
    /\ last_report = LastReport
    /\ QueryFailed
    /\ 1 \notin files
    /\ {2, 3, 15} \subseteq files
    /\ Queried = [i \in 1..LastReport |-> i]
    /\ BannerPrinted

(* a plot method of this run has raised and the except clause has printed  *)
(* the error                                                               *)
PlotRaised == "[FAILED] Error generating reports" \in printed

(* C26: when a plot method raises, the run is over but for the close.  The *)
(* raising step writes no file and leaves the files written so far in      *)
(* place; after it no query is sent, no file is written and no later       *)
(* report is begun, the banner is not printed, and the one step that       *)
(* follows closes the connection and returns.  No step ever removes a      *)
(* file.                                                                   *)
C26_PlotErrorEndsRun ==
    [][/\ files \subseteq files'
       /\ PlotRaised' => ~BannerPrinted'
       /\ (PlotRaised' /\ ~PlotRaised) =>
            /\ files' = files /\ Queried' = Queried /\ pc' = pc
            /\ stage' = "finally" /\ conn' = "open"
       /\ PlotRaised =>
            /\ files' = files /\ Queried' = Queried /\ pc' = pc
            /\ stage = "finally" /\ stage' = "returned" /\ conn' = "closed"]_vars

(* C26 witness: the second plot method of report 3 raised after reports 1  *)
(* and 2 and the first plot of report 3 had written their files; the run   *)
(* has returned without the banner, with those files and the connection    *)
(* closed, and no query after that of report 3                             *)
C26_Witness ==
    /\ stage = "returned"
    /\ PlotRaised
    /\ last_report = LastReport
    /\ pc = 3
    /\ files = {1, 2, 3, 4}
    /\ Queried = <<1, 2, 3>>
    /\ ~BannerPrinted
    /\ conn = "closed"

====
